---- MODULE Spec2Model ----
(***************************************************************************)
(* The jack-detection state machine of drivers/switch/switch-arizona.c.    *)
(*                                                                         *)
(* The controller (struct arizona_extcon_info) is the record `info`; each  *)
(* C function that changes it is an operator from a record to a record,    *)
(* keeping the function's name.  The outcome of a register access or of a  *)
(* measurement is an input `io` of the handler that performs it.           *)
(*                                                                         *)
(* Scheduling.  The four interrupt handlers are registered as threaded     *)
(* handlers of one parent device (arizona_request_irq, lines 2074-2111)    *)
(* and are run one at a time by its interrupt thread: irq_pc is the        *)
(* position of that thread.  The delayed works (hpdet_work,                *)
(* micd_detect_work, state_timeout_work) run on the system workqueue,      *)
(* concurrently with the interrupt thread.  Everything done between        *)
(* mutex_lock(&info->lock) and mutex_unlock is one step; what a handler    *)
(* does before it takes the lock (cancel_delayed_work_sync) is a step of   *)
(* its own.                                                                *)
(***************************************************************************)
EXTENDS Integers, Sequences, FiniteSets, TLC

VARIABLES
    cfg,                \* arizona->pdata and the probe-time choices (never changes)
    info,               \* struct arizona_extcon_info, arizona->hp_impedance, the switch
    irq_pc,             \* position of the interrupt thread
    cancelled_hp,       \* local of arizona_jackdet
    cancelled_state,    \* local of arizona_jackdet
    hpdet_work,         \* info->hpdet_work is pending
    micd_detect_work,   \* info->micd_detect_work: "idle", "pending", "running"
    state_timeout_work  \* info->state_timeout_work: [pending, armed_for]

vars == <<cfg, info, irq_pc, cancelled_hp, cancelled_state, hpdet_work,
          micd_detect_work, state_timeout_work>>

----------------------------------------------------------------------------
(* Bounds of the model *)

\* info->micd_num_modes (two in micd_default_modes)
MaxModes == 2

----------------------------------------------------------------------------
(* Constants of the program *)

EAGAIN == 11
EIO == 5
EEXIST == 17
EINVAL == 22

ARIZONA_ACCDET_MODE_MIC == 0
ARIZONA_ACCDET_MODE_HPL == 1
ARIZONA_ACCDET_MODE_HPR == 2
ARIZONA_ACCDET_MODE_INVALID == 8

ARIZONA_HPDET_MAX == 10000

\* ARIZONA_HEADPHONE_DETECT_2: the completion bit and the level field of
\* the first revision, and of the later ones
ARIZONA_HP_DONE == 128
ARIZONA_HP_LVL_MASK == 127
ARIZONA_HP_DONE_B == 32768
ARIZONA_HP_LVL_B_MASK == 32767

\* the .threshold, .factor_a and .factor_b of arizona_hpdet_b_ranges
arizona_hpdet_b_ranges ==
    <<[threshold |-> 100, factor_a |-> 5528, factor_b |-> 362464],
      [threshold |-> 169, factor_a |-> 11084, factor_b |-> 6186851],
      [threshold |-> 169, factor_a |-> 11065, factor_b |-> 65460395]>>

ARIZONA_HPDET_B_RANGE_MAX == 1019

arizona_hpdet_c_ranges ==
    <<[min |-> 0, max |-> 30],
      [min |-> 8, max |-> 100],
      [min |-> 100, max |-> 1000],
      [min |-> 1000, max |-> 10000]>>

ARIZONA_MAX_MICD_RANGE == 8

\* the .max of micd_default_ranges, in ohms; range n reports key BTN_n
micd_default_ranges == <<11, 28, 54, 100, 186, 430>>

ARIZONA_NUM_MICD_BUTTON_LEVELS == 64

arizona_micd_levels ==
    <<3, 6, 8, 11, 13, 16, 18, 21, 23, 26, 28, 31, 34, 36, 39, 41, 44, 46,
      49, 52, 54, 57, 60, 62, 65, 67, 70, 73, 75, 78, 81, 83, 89, 94, 100,
      105, 111, 116, 122, 127, 139, 150, 161, 173, 186, 196, 209, 220, 245,
      270, 295, 321, 348, 375, 402, 430, 489, 550, 614, 681, 752, 903, 1071,
      1257, 30000>>

BIT_NO_HEADSET == 0
BIT_HEADSET == 1
BIT_HEADSET_NO_MIC == 2

\* bits of the word arizona_micd_read returns (ARIZONA_MIC_DETECT_3)
ARIZONA_MICD_STS == 1
ARIZONA_MICD_VALID == 2
ARIZONA_MICD_LVL_0 == 4
ARIZONA_MICD_LVL_8 == 1024

\* the value of (val & mask) in arizona_jackdet: the status bit is clear or set
JD_CLEAR == 0
JD_SET == 1
\* ~(ARIZONA_MICD_CLAMP_STS | ARIZONA_JD1_STS): equal to no masked reading
JD_NEVER == 2

HasBit(val, bit) == (val \div bit) % 2 = 1
MicdLvl(n) == ARIZONA_MICD_LVL_0 * (2 ^ n)
\* val & MICD_LVL_1_TO_7
MICD_LVL_1_TO_7(val) == \E n \in 1..7 : HasBit(val, MicdLvl(n))
\* val & MICD_LVL_0_TO_7
MICD_LVL_0_TO_7(val) == \E n \in 0..7 : HasBit(val, MicdLvl(n))

----------------------------------------------------------------------------
(* The detection states: struct arizona_jd_state *)

NONE == "NULL"

arizona_hpdet_moisture == "arizona_hpdet_moisture"
arizona_hpdet_left == "arizona_hpdet_left"
arizona_hpdet_right == "arizona_hpdet_right"
arizona_micd_button == "arizona_micd_button"
arizona_micd_microphone == "arizona_micd_microphone"
arizona_hpdet_acc_id == "arizona_hpdet_acc_id"

JdStates == {arizona_hpdet_moisture, arizona_hpdet_left, arizona_hpdet_right,
             arizona_micd_button, arizona_micd_microphone, arizona_hpdet_acc_id}

\* the states other modules can name (EXPORT_SYMBOL_GPL)
ExportedStates == {arizona_hpdet_left, arizona_hpdet_right,
                   arizona_micd_button, arizona_micd_microphone}

\* .mode
StateMode(s) ==
    CASE s = arizona_hpdet_right -> ARIZONA_ACCDET_MODE_HPR
      [] s \in {arizona_micd_button, arizona_micd_microphone} -> ARIZONA_ACCDET_MODE_MIC
      [] OTHER -> ARIZONA_ACCDET_MODE_HPL

\* .timeout_ms && .timeout
HasTimeout(s) == s = arizona_micd_microphone

\* .restart
HasRestart(s) == s = arizona_hpdet_acc_id

----------------------------------------------------------------------------
(* Inputs *)

\* what arizona_hpdet_read can return: not ready, an I/O error, or ohms
HpdetReadResults == {-EAGAIN, -EIO, 32, ARIZONA_HPDET_MAX}

\* what arizona_micd_read can return: an error, open circuit, a short,
\* a low impedance (level 1), a microphone (level 8)
MicdReadResults ==
    {-EINVAL,
     ARIZONA_MICD_VALID + ARIZONA_MICD_LVL_8,
     ARIZONA_MICD_VALID + ARIZONA_MICD_STS + ARIZONA_MICD_LVL_0,
     ARIZONA_MICD_VALID + ARIZONA_MICD_STS + MicdLvl(1),
     ARIZONA_MICD_VALID + ARIZONA_MICD_STS + ARIZONA_MICD_LVL_8}

\* outcome of the two register writes of a start: both succeed, the first
\* fails, the second fails
StartIo == {"ok", "mode_fails", "poll_fails"}

\* the platform data the model ranges over
Configs ==
    {c \in [hpdet_acc_id : BOOLEAN,
            hpdet_acc_id_line : BOOLEAN,
            hpdet_id_gpio : BOOLEAN,
            custom_jd : {NONE, arizona_hpdet_right},
            hpdet_moisture_imp : {0, 2000},
            fixed_hpdet_imp : {0, 32},
            hpdet_channel : {0, 1},
            micd_open_circuit_declare : BOOLEAN,
            micd_detect_debounce : {0, 100},
            micd_num_modes : {MaxModes},
            hpdet_ext_res : {0},
            init_mic_delay : {0},
            num_micd_ranges : {Len(micd_default_ranges)},
            jd_gpio5 : BOOLEAN,
            jd_invert : BOOLEAN] :
        \* options that are not read in a mode are left at their default
        /\ c.hpdet_acc_id =>
              c.custom_jd = NONE /\ c.hpdet_moisture_imp = 0
        /\ ~c.hpdet_acc_id =>
              ~c.hpdet_acc_id_line /\ ~c.hpdet_id_gpio
        \* options that do not meet in the code vary together
        /\ ~c.jd_gpio5
        /\ c.jd_invert = (c.hpdet_channel = 1)
        /\ c.micd_open_circuit_declare = (c.hpdet_channel = 1)}

\* the platform data with every option left unset
DefaultConfigs ==
    {d \in Configs : /\ ~d.hpdet_acc_id /\ d.custom_jd = NONE
                     /\ d.hpdet_moisture_imp = 0
                     /\ d.fixed_hpdet_imp = 0 /\ d.hpdet_channel = 0
                     /\ d.micd_detect_debounce = 0}

----------------------------------------------------------------------------
(* The event log of the handler that ran last (observation only) *)

Ev(op, st, ret, now) == [op |-> op, st |-> st, ret |-> ret, now |-> now]

Log(i, op, st, ret) == [i EXCEPT !.ev = Append(@, Ev(op, st, ret, i.state))]

\* switch_set_state(&info->edev, state)
arizona_extcon_report(i, state) ==
    Log([i EXCEPT !.edev = state], "report", "", state)

----------------------------------------------------------------------------
(* arizona_hpdet_read.  `status` is the word read from
   ARIZONA_HEADPHONE_DETECT_2, `dacval` the word read from ARIZONA_HP_DACVAL,
   `io` tells which of the two checked reads fails.  The range is the field
   of ARIZONA_HEADPHONE_DETECT_1 the function itself writes. *)

HpdetReadIo == {"ok", "status_fails", "dacval_fails"}

NoRead == [status |-> 0, dacval |-> 0, io |-> "none", range |-> 0]

(* val and range are unsigned int and the function returns int: a word is
   kept as the int of the same 32 bits, so a difference that wraps shows as
   a negative number.  Every word read is below 2^16, so the products and
   the comparisons below are those of the unsigned words. *)

\* factor_b / d, d an unsigned word: a wrapped d is larger than factor_b
UnsignedDiv(n, d) == IF d < 0 THEN 0 ELSE n \div d

\* lines 603-617: compensate for the external resistor
ExtResCompensated(val) ==
    IF cfg.hpdet_ext_res # 0 /\ ~(cfg.hpdet_ext_res >= val)
    THEN val - cfg.hpdet_ext_res
    ELSE val

\* range++, regmap_update_bits(..., range << SHIFT), return -EAGAIN
MoveToRange_no_write(i, range) == [i EXCEPT !.ret = -EAGAIN]

MoveToRange(i, range) == [i EXCEPT !.hp_range = range, !.ret = -EAGAIN]

\* case 1 of the switch, after both reads
hpdet_read_b(i, val) ==
    LET range == i.hp_range
        out == \/ val < arizona_hpdet_b_ranges[range + 1].threshold
               \/ val >= ARIZONA_HPDET_B_RANGE_MAX
    IN IF range < Len(arizona_hpdet_b_ranges) - 1 /\ out
       THEN MoveToRange(i, range + 1)
       ELSE IF out
       THEN [i EXCEPT !.ret = ARIZONA_HPDET_MAX]
       ELSE [i EXCEPT !.ret = ExtResCompensated(
                 UnsignedDiv(arizona_hpdet_b_ranges[range + 1].factor_b,
                             (val * 100)
                             - arizona_hpdet_b_ranges[range + 1].factor_a))]

\* case 2 of the switch; val is the level field halved
hpdet_read_c(i, val) ==
    LET range == i.hp_range
    IN IF /\ range < Len(arizona_hpdet_c_ranges) - 1
          /\ val >= arizona_hpdet_c_ranges[range + 1].max
       THEN MoveToRange(i, range + 1)
       ELSE IF range # 0 /\ val < arizona_hpdet_c_ranges[range + 1].min
       THEN [i EXCEPT !.ret =
                ExtResCompensated(arizona_hpdet_c_ranges[range + 1].min)]
       ELSE [i EXCEPT !.ret = ExtResCompensated(val)]

arizona_hpdet_read(i, status, dacval, io) ==
    IF io = "status_fails"
    THEN [i EXCEPT !.ret = -EIO]
    ELSE CASE i.hpdet_ip = 0 ->
                IF ~HasBit(status, ARIZONA_HP_DONE)
                THEN [i EXCEPT !.ret = -EAGAIN]
                ELSE [i EXCEPT !.ret = ExtResCompensated(
                                          status % (ARIZONA_HP_LVL_MASK + 1))]
           [] i.hpdet_ip = 1 ->
                IF ~HasBit(status, ARIZONA_HP_DONE_B)
                THEN [i EXCEPT !.ret = -EAGAIN]
                ELSE IF io = "dacval_fails"
                THEN [i EXCEPT !.ret = -EAGAIN]
                ELSE hpdet_read_b(i, dacval)
           [] OTHER ->
                IF ~HasBit(status, ARIZONA_HP_DONE_B)
                THEN [i EXCEPT !.ret = -EAGAIN]
                ELSE hpdet_read_c(i, (status % (ARIZONA_HP_LVL_B_MASK + 1))
                                         \div 2)

----------------------------------------------------------------------------
(* The state controller *)

arizona_jds_get_mode(i) ==
    IF i.state # NONE THEN StateMode(i.state) ELSE ARIZONA_ACCDET_MODE_INVALID

\* arizona_extcon_set_mode: mode %= info->micd_num_modes; info->micd_mode = mode
arizona_extcon_set_mode(i, mode) ==
    [i EXCEPT !.micd_mode = mode % cfg.micd_num_modes]

(* start and stop of the headphone-detect states.  `started` is the set of
   states that hold the device for a measurement: a start puts its state in
   (pm_runtime_get_sync), its error path and its stop take it out
   (pm_runtime_put_autosuspend). *)

arizona_hpdet_start(i, io) ==
    IF cfg.fixed_hpdet_imp # 0
    THEN [i EXCEPT !.ret = -EEXIST]
    ELSE LET i1 == [i EXCEPT !.started = @ \cup {i.state},
                             !.pm_usage = @ + 1]
         IN IF io \in {"mode_fails", "poll_fails"}
            THEN [i1 EXCEPT !.started = @ \ {i.state}, !.pm_usage = @ - 1,
                            !.ret = -EIO]
            ELSE [i1 EXCEPT !.ret = 0]

\* the range field of ARIZONA_HEADPHONE_DETECT_1 goes back to 0
arizona_hpdet_stop(i) ==
    [i EXCEPT !.started = @ \ {i.state}, !.hp_range = 0, !.pm_usage = @ - 1]

arizona_hpdet_moisture_start(i, io) == arizona_hpdet_start(i, io)

\* lines 973-979: pm_runtime_get_sync; regulator_enable, whose failure is
\* only logged; the function returns 0 in every case
arizona_micd_start(i, io) ==
    [i EXCEPT !.started = @ \cup {i.state}, !.pm_usage = @ + 1,
              !.micvdd = IF io = "enable_fails" THEN @ ELSE @ + 1,
              !.ret = 0]

\* lines 1040-1043: regulator_disable; pm_runtime_put_autosuspend
arizona_micd_stop(i) ==
    [i EXCEPT !.started = @ \ {i.state}, !.micvdd = @ - 1,
              !.pm_usage = @ - 1]

arizona_micd_mic_start(i, io) ==
    arizona_micd_start([i EXCEPT !.detecting = TRUE], io)

\* arizona_micd_mic_stop without info->detecting = false
mic_stop_keeps_detecting(i) == arizona_micd_stop(i)

arizona_micd_mic_stop(i) ==
    [arizona_micd_stop(i) EXCEPT !.detecting = FALSE]

arizona_hpdet_acc_id_stop(i) == arizona_hpdet_stop(i)

\* info->state->stop(info)
StateStop(i) ==
    LET l == Log(i, "stop", i.state, 0)
    IN CASE i.state = arizona_micd_microphone -> arizona_micd_mic_stop(l)
         [] i.state = arizona_micd_button -> arizona_micd_stop(l)
         [] i.state = arizona_hpdet_acc_id -> arizona_hpdet_acc_id_stop(l)
         [] OTHER -> arizona_hpdet_stop(l)

RECURSIVE arizona_jds_set_state(_, _, _)

\* arizona_hpdet_acc_id_reading retrying without info->hpdet_retried = true
acc_id_reading_forgets_retry(i, reading, io) ==
    IF reading < 0
    THEN [i EXCEPT !.ret = reading]
    ELSE
      IF i.num_hpdet_res >= 3
      THEN [i EXCEPT !.oops = "hpdet_res: index out of bounds", !.ret = 0]
      ELSE
      LET i1 == [i EXCEPT !.hpdet_res[i.num_hpdet_res + 1] = reading,
                          !.num_hpdet_res = @ + 1]
      IN IF cfg.hpdet_id_gpio /\ i1.num_hpdet_res = 1
         THEN [i1 EXCEPT !.ret = -EAGAIN]
         ELSE IF i1.hpdet_res[1] >= ARIZONA_HPDET_MAX /\ ~i1.hpdet_retried
         THEN [i1 EXCEPT !.num_hpdet_res = 0, !.ret = -EAGAIN]
         ELSE IF ~cfg.hpdet_id_gpio \/ i1.hpdet_res[2] > 50
         THEN [arizona_jds_set_state(i1, arizona_micd_microphone, io)
                 EXCEPT !.ret = 0]
         ELSE [arizona_jds_set_state(
                   arizona_extcon_report(i1, BIT_HEADSET_NO_MIC), NONE, io)
                 EXCEPT !.ret = 0]

arizona_hpdet_acc_id_reading(i, reading, io) ==
    IF reading < 0
    THEN [i EXCEPT !.ret = reading]
    ELSE
      \* info->hpdet_res[info->num_hpdet_res++] = reading
      IF i.num_hpdet_res >= 3
      THEN [i EXCEPT !.oops = "hpdet_res: index out of bounds", !.ret = 0]
      ELSE
      LET i1 == [i EXCEPT !.hpdet_res[i.num_hpdet_res + 1] = reading,
                          !.num_hpdet_res = @ + 1]
      IN IF cfg.hpdet_id_gpio /\ i1.num_hpdet_res = 1
         THEN [i1 EXCEPT !.ret = -EAGAIN]
         ELSE IF i1.hpdet_res[1] >= ARIZONA_HPDET_MAX /\ ~i1.hpdet_retried
         THEN [i1 EXCEPT !.num_hpdet_res = 0, !.hpdet_retried = TRUE,
                         !.ret = -EAGAIN]
         ELSE IF ~cfg.hpdet_id_gpio \/ i1.hpdet_res[2] > 50
         THEN [arizona_jds_set_state(i1, arizona_micd_microphone, io)
                 EXCEPT !.ret = 0]
         ELSE [arizona_jds_set_state(
                   arizona_extcon_report(i1, BIT_HEADSET_NO_MIC), NONE, io)
                 EXCEPT !.ret = 0]

arizona_hpdet_acc_id_start(i, io) ==
    LET i1 == [i EXCEPT !.started = @ \cup {i.state}, !.pm_usage = @ + 1]
        err(j) == [arizona_extcon_report(
                      [j EXCEPT !.started = @ \ {i.state}, !.pm_usage = @ - 1],
                      BIT_HEADSET_NO_MIC)
                     EXCEPT !.ret = -EIO]
    IN IF io = "mode_fails"
       THEN err(i1)
       ELSE IF cfg.hpdet_acc_id_line
       THEN IF io = "poll_fails" THEN err(i1) ELSE [i1 EXCEPT !.ret = 0]
       \* fake the first reading at 32 ohms
       ELSE [arizona_hpdet_acc_id_reading(i1, 32, io) EXCEPT !.ret = 0]

\* the start callback of the state i names
StartOf(i, io) ==
    CASE i.state = arizona_micd_microphone -> arizona_micd_mic_start(i, io)
      [] i.state = arizona_micd_button -> arizona_micd_start(i, io)
      [] i.state = arizona_hpdet_acc_id -> arizona_hpdet_acc_id_start(i, io)
      [] i.state = arizona_hpdet_moisture -> arizona_hpdet_moisture_start(i, io)
      [] OTHER -> arizona_hpdet_start(i, io)

\* the return of the start callback of state st
Started(i, st) == Log(i, "started", st, i.ret)

\* ret = info->state->start(info)
StateStart(i, io) == Started(StartOf(Log(i, "start", i.state, 0), io), i.state)

\* lines 174-175: if (info->state) info->state->stop(info)
StopOld(i) == IF i.state # NONE THEN StateStop(i) ELSE i

\* lines 181-182: if (ret < 0) info->state = NULL
FailedToNone(i) == IF i.ret < 0 THEN [i EXCEPT !.state = NONE] ELSE i

\* lines 179-183: if (info->state) { ret = info->state->start(info); ... }
StartNew(i, io) ==
    IF i.state # NONE THEN FailedToNone(StateStart(i, io)) ELSE i

\* line 186: return ret
Returned(i, new_state) == Log(i, "set_state", new_state, i.ret)

\* arizona_jds_set_state without the call of the old state's stop
set_state_no_stop(i, new_state, io) ==
    Returned(IF new_state # i.state
             THEN StartNew([i EXCEPT !.state = new_state, !.ret = 0], io)
             ELSE [i EXCEPT !.ret = 0],
             new_state)

\* arizona_jds_set_state keeping a state whose start failed
set_state_keeps_failed(i, new_state, io) ==
    Returned(IF new_state # i.state
             THEN IF new_state # NONE
                  THEN StateStart([StopOld(i) EXCEPT !.state = new_state,
                                                     !.ret = 0], io)
                  ELSE [StopOld(i) EXCEPT !.state = new_state, !.ret = 0]
             ELSE [i EXCEPT !.ret = 0],
             new_state)

\* arizona_jds_set_state without the test new_state != info->state
set_state_always_switches(i, new_state, io) ==
    Returned(StartNew([StopOld(i) EXCEPT !.state = new_state, !.ret = 0], io),
             new_state)

arizona_jds_set_state(i, new_state, io) ==
    Returned(IF new_state # i.state
             THEN StartNew([StopOld(i) EXCEPT !.state = new_state, !.ret = 0], io)
             ELSE [i EXCEPT !.ret = 0],
             new_state)

----------------------------------------------------------------------------
(* The readings of the other states *)

arizona_hpdet_moisture_reading(i, val, io) ==
    IF val < 0
    THEN [i EXCEPT !.ret = val]
    ELSE IF val < cfg.hpdet_moisture_imp
    THEN [arizona_jds_set_state(i, arizona_micd_microphone, io) EXCEPT !.ret = 0]
    ELSE [arizona_jds_set_state(i, NONE, io) EXCEPT !.ret = 0]

\* arizona_hpdet_reading reporting a microphone whatever info->mic says
hpdet_reading_ignores_mic(i, val, io) ==
    IF val < 0
    THEN [i EXCEPT !.ret = val]
    ELSE [arizona_jds_set_state(
              arizona_extcon_report([i EXCEPT !.hp_impedance = val], BIT_HEADSET),
              arizona_micd_button, io) EXCEPT !.ret = 0]

\* arizona_hpdet_reading moving on to the buttons whatever info->mic says
hpdet_reading_always_button(i, val, io) ==
    IF val < 0
    THEN [i EXCEPT !.ret = val]
    ELSE LET i1 == [i EXCEPT !.hp_impedance = val]
         IN [arizona_jds_set_state(
                 arizona_extcon_report(i1, IF i1.mic THEN BIT_HEADSET
                                                     ELSE BIT_HEADSET_NO_MIC),
                 arizona_micd_button, io) EXCEPT !.ret = 0]

arizona_hpdet_reading(i, val, io) ==
    IF val < 0
    THEN [i EXCEPT !.ret = val]
    ELSE LET i1 == [i EXCEPT !.hp_impedance = val]
         IN IF i1.mic
            THEN [arizona_jds_set_state(arizona_extcon_report(i1, BIT_HEADSET),
                                        arizona_micd_button, io) EXCEPT !.ret = 0]
            ELSE [arizona_jds_set_state(arizona_extcon_report(i1, BIT_HEADSET_NO_MIC),
                                        NONE, io) EXCEPT !.ret = 0]

\* lvl = (val & ARIZONA_MICD_LVL_MASK) >> ARIZONA_MICD_LVL_SHIFT: levels 0..8
MicdLvlField(val) == (val \div ARIZONA_MICD_LVL_0) % 512

\* ffs: the position, from 1, of the lowest set bit; 0 if there is none
ffs(x) ==
    IF x = 0 THEN 0
    ELSE CHOOSE n \in 1..32 :
            /\ HasBit(x, 2 ^ (n - 1))
            /\ \A m \in 1..(n - 1) : ~HasBit(x, 2 ^ (m - 1))

\* arizona_micd_button_reading pressing the key of the highest level set
button_reading_highest_level(i, val) ==
    IF val < 0
    THEN [i EXCEPT !.ret = val]
    ELSE IF MICD_LVL_0_TO_7(val)
    THEN LET top == CHOOSE n \in 0..8 :
                       /\ HasBit(MicdLvlField(val), 2 ^ n)
                       /\ \A m \in (n + 1)..8 : ~HasBit(MicdLvlField(val), 2 ^ m)
         IN IF top < cfg.num_micd_ranges
            THEN [i EXCEPT !.keys = {top}, !.ret = 0]
            ELSE [i EXCEPT !.keys = {}, !.ret = 0]
    ELSE [i EXCEPT !.keys = {}, !.ret = 0]

\* arizona_micd_button_reading pressing a key without releasing the others
button_reading_keeps_keys(i, val) ==
    IF val < 0
    THEN [i EXCEPT !.ret = val]
    ELSE IF MICD_LVL_0_TO_7(val)
    THEN IF /\ MicdLvlField(val) # 0
            /\ ffs(MicdLvlField(val)) - 1 < cfg.num_micd_ranges
         THEN [i EXCEPT !.keys = @ \cup {ffs(MicdLvlField(val)) - 1}, !.ret = 0]
         ELSE [i EXCEPT !.ret = 0]
    ELSE [i EXCEPT !.keys = {}, !.ret = 0]

\* info.keys: the n for which micd_ranges[n].key is reported down
arizona_micd_button_reading(i, val) ==
    IF val < 0
    THEN [i EXCEPT !.ret = val]
    ELSE IF MICD_LVL_0_TO_7(val)
    THEN \* every key is released, then the key of the lowest level is pressed
         IF /\ MicdLvlField(val) # 0
            /\ ffs(MicdLvlField(val)) - 1 < cfg.num_micd_ranges
         THEN [i EXCEPT !.keys = {ffs(MicdLvlField(val)) - 1}, !.ret = 0]
         ELSE [i EXCEPT !.keys = {}, !.ret = 0]
    ELSE [i EXCEPT !.keys = {}, !.ret = 0]

\* the hpdet state arizona_micd_mic_reading and arizona_micd_mic_timeout go to
HpdetChannelState ==
    IF cfg.hpdet_channel # 0 THEN arizona_hpdet_right ELSE arizona_hpdet_left

\* lines 1176-1187: a failed start of the hpdet state reports the headset
ReportIfFailed(i) ==
    [(IF i.ret < 0
      THEN IF i.mic
           THEN arizona_extcon_report(i, BIT_HEADSET)
           ELSE arizona_extcon_report(i, BIT_HEADSET_NO_MIC)
      ELSE i) EXCEPT !.ret = 0]

\* the label done: of arizona_micd_mic_reading
MicReadingDone(i, io) ==
    ReportIfFailed(arizona_jds_set_state(i, HpdetChannelState, io))

\* arizona_micd_mic_reading with the limit tested by > in place of >=
mic_reading_one_flip_more(i, val, io) ==
    IF val < 0
    THEN [i EXCEPT !.ret = val]
    ELSE IF ~HasBit(val, ARIZONA_MICD_STS)
    THEN MicReadingDone([i EXCEPT !.mic = cfg.micd_open_circuit_declare], io)
    ELSE IF HasBit(val, ARIZONA_MICD_LVL_8)
    THEN MicReadingDone([i EXCEPT !.mic = TRUE], io)
    ELSE IF MICD_LVL_1_TO_7(val)
    THEN IF i.jack_flips > cfg.micd_num_modes * 10
         THEN MicReadingDone(i, io)
         ELSE [arizona_extcon_set_mode(i, i.micd_mode + 1)
                 EXCEPT !.jack_flips = @ + 1, !.ret = 0]
    ELSE MicReadingDone(i, io)

arizona_micd_mic_reading(i, val, io) ==
    IF val < 0
    THEN [i EXCEPT !.ret = val]
    ELSE IF ~HasBit(val, ARIZONA_MICD_STS)
    THEN MicReadingDone([i EXCEPT !.mic = cfg.micd_open_circuit_declare], io)
    ELSE IF HasBit(val, ARIZONA_MICD_LVL_8)
    THEN MicReadingDone([i EXCEPT !.mic = TRUE], io)
    ELSE IF MICD_LVL_1_TO_7(val)
    THEN IF i.jack_flips >= cfg.micd_num_modes * 10
         THEN MicReadingDone(i, io)
         ELSE LET m == IF i.micd_mode + 1 = cfg.micd_num_modes
                       THEN 0 ELSE i.micd_mode + 1
              IN [arizona_extcon_set_mode(i, m)
                    EXCEPT !.jack_flips = @ + 1, !.ret = 0]
    ELSE MicReadingDone(i, io)

\* lines 1209-1214: a failed start of the hpdet state reports no microphone
ReportNoMicIfFailed(i) ==
    IF i.ret < 0 THEN arizona_extcon_report(i, BIT_HEADSET_NO_MIC) ELSE i

\* arizona_micd_mic_timeout reporting without leaving the state
mic_timeout_keeps_state(i, io) ==
    arizona_extcon_report([i EXCEPT !.timed_out = TRUE], BIT_HEADSET_NO_MIC)

arizona_micd_mic_timeout(i, io) ==
    ReportNoMicIfFailed(
        arizona_jds_set_state([i EXCEPT !.timed_out = TRUE],
                              HpdetChannelState, io))

\* info->state->reading(info, val)
StateReading(i, val, io) ==
    CASE i.state = arizona_micd_microphone -> arizona_micd_mic_reading(i, val, io)
      [] i.state = arizona_micd_button -> arizona_micd_button_reading(i, val)
      [] i.state = arizona_hpdet_acc_id -> arizona_hpdet_acc_id_reading(i, val, io)
      [] i.state = arizona_hpdet_moisture -> arizona_hpdet_moisture_reading(i, val, io)
      [] OTHER -> arizona_hpdet_reading(i, val, io)

\* arizona_hpdet_restart resets the range field and polls again
arizona_hpdet_restart(i) ==
    Log([i EXCEPT !.hp_range = 0], "restart", i.state, 0)

\* line 197 with ret < 0 in place of ret == -EAGAIN
RestartIfAgain_any_error(i) ==
    IF i.ret < 0
    THEN IF i.state = NONE
         THEN [i EXCEPT !.oops = "reading: info->state is NULL"]
         ELSE IF HasRestart(i.state) THEN arizona_hpdet_restart(i) ELSE i
    ELSE i

\* line 197: if (ret == -EAGAIN && info->state->restart)
RestartIfAgain(i) ==
    IF i.ret = -EAGAIN
    THEN IF i.state = NONE
         THEN [i EXCEPT !.oops = "reading: info->state is NULL"]
         ELSE IF HasRestart(i.state) THEN arizona_hpdet_restart(i) ELSE i
    ELSE i

\* line 195: ret = info->state->reading(info, val)
ReadingReturned(i) == [i EXCEPT !.reading_ret = i.ret]

arizona_jds_reading(i, val, io) ==
    RestartIfAgain(ReadingReturned(
        StateReading(Log(i, "reading", i.state, val), val, io)))

\* schedule_delayed_work does nothing to a work that is already pending
arizona_jds_start_timeout(i, w) ==
    IF i.state # NONE /\ HasTimeout(i.state) /\ ~w.pending
    THEN [pending |-> TRUE, armed_for |-> i.state]
    ELSE w

\* cancel_delayed_work_sync(&info->state_timeout_work)
NoTimeout == [pending |-> FALSE, armed_for |-> NONE]

----------------------------------------------------------------------------
(* The initial state: arizona_extcon_probe, devm_kzalloc *)

\* the controller as devm_kzalloc and the probe leave it
InitInfo ==
    [state |-> NONE,
     last_jackdet |-> JD_NEVER,
     mic |-> FALSE,
     detecting |-> FALSE,
     jack_flips |-> 0,
     micd_mode |-> 0,
     hpdet_retried |-> FALSE,
     num_hpdet_res |-> 0,
     hpdet_res |-> <<0, 0, 0>>,
     hp_impedance |-> 0,
     edev |-> BIT_NO_HEADSET,
     keys |-> {},
     hpdet_ip |-> 0,
     \* arizona_extcon_remove has returned
     removed |-> FALSE,
     \* the holder of info->lock between two steps
     lock |-> "none",
     \* observation: what the reading callback returned to
     \* arizona_jds_reading in the last handler (0 or an error; 1: not called)
     reading_ret |-> 1,
     \* observation: arizona_micd_mic_timeout has run since the last
     \* presence event was handled
     timed_out |-> FALSE,
     \* the range field of ARIZONA_HEADPHONE_DETECT_1
     hp_range |-> 0,
     \* observation: the inputs of the last arizona_hpdet_read and the range
     \* it found, the number of times the measurement moved to another range
     read |-> NoRead,
     range_retries |-> 0,
     \* observation: the held states, the last presence event
     \* handled, the log of the last handler, a fault, the
     \* return value in flight
     started |-> {},
     pm_usage |-> 0,
     micvdd |-> 0,
     jd_last |-> "none",
     ev |-> <<>>,
     oops |-> "none",
     ret |-> 0]

Init ==
    /\ cfg \in Configs
    /\ info = InitInfo
    /\ irq_pc = "idle"
    /\ cancelled_hp = FALSE
    /\ cancelled_state = FALSE
    /\ hpdet_work = FALSE
    /\ micd_detect_work = "idle"
    /\ state_timeout_work = NoTimeout

\* a handler starts with an empty log; it leaves no return value behind;
\* the log is kept only until the next step
Fresh(i) == [i EXCEPT !.ev = <<>>, !.reading_ret = 1]
Enter(i, op, st) == Log(Fresh(i), op, st, 0)
Leave(i) == [i EXCEPT !.ret = 0]
NoLog == info' = Fresh(info)

Alive == info.oops = "none"

\* arizona_jds_start_timeout(info); mutex_unlock(&info->lock), where w is
\* the timeout work as the handler finds it
StartTimeoutAndUnlock(i, w) ==
    /\ info' = Leave(i)
    /\ state_timeout_work' = arizona_jds_start_timeout(i, w)

----------------------------------------------------------------------------
(* arizona_jackdet *)

\* the masked status that means "jack present"
JdPresent ==
    IF cfg.jd_gpio5
    THEN IF cfg.jd_invert THEN JD_SET ELSE JD_CLEAR
    ELSE IF cfg.jd_invert THEN JD_CLEAR ELSE JD_SET

\* the moisture check taking priority over the custom state
FirstState_moisture_first ==
    IF cfg.hpdet_moisture_imp # 0 THEN arizona_hpdet_moisture
    ELSE IF cfg.custom_jd # NONE THEN cfg.custom_jd
    ELSE arizona_micd_microphone

\* the first state of an insertion
FirstState ==
    IF cfg.custom_jd # NONE THEN cfg.custom_jd
    ELSE IF cfg.hpdet_moisture_imp # 0 THEN arizona_hpdet_moisture
    ELSE arizona_micd_microphone

\* arizona_jackdet without the duplicate filter
JdDuplicate_never(val, last_jackdet) == FALSE

\* val == info->last_jackdet
JdDuplicate(val, last_jackdet) == val = last_jackdet

\* lines 1558-1559: both works are cancelled before the lock is taken
JackdetIrq ==
    /\ Alive
    /\ irq_pc = "idle"
    /\ cancelled_hp' = hpdet_work
    /\ cancelled_state' = state_timeout_work.pending
    /\ hpdet_work' = FALSE
    /\ state_timeout_work' = NoTimeout
    /\ irq_pc' = "jackdet"
    /\ NoLog
    /\ UNCHANGED <<cfg, micd_detect_work>>

\* lines 1610-1611
JackdetReset(i) == [i EXCEPT !.mic = FALSE, !.jack_flips = 0]

\* the insertion branch, without accessory identification
JackdetInsert(i, io) ==
    arizona_jds_set_state(JackdetReset(i), FirstState, io)

\* the removal branch
JackdetRemove(i) ==
    arizona_extcon_report(
        [arizona_jds_set_state([i EXCEPT !.num_hpdet_res = 0,
                                         !.hpdet_res = <<0, 0, 0>>,
                                         !.mic = FALSE,
                                         !.hpdet_retried = FALSE,
                                         !.hp_impedance = 0],
                               NONE, "ok")
           EXCEPT !.keys = {}],
        BIT_NO_HEADSET)

\* the locals cancelled_hp and cancelled_state as one number of the log
Cancelled(hp, st) == (IF hp THEN 1 ELSE 0) + (IF st THEN 2 ELSE 0)

\* lines 1595-1596 with the test of cancelled_state left out
RearmIfCancelled_always(cancelled, i, w) == arizona_jds_start_timeout(i, w)

\* lines 1595-1596: if (cancelled_state) arizona_jds_start_timeout(info)
RearmIfCancelled(cancelled, i, w) ==
    IF cancelled THEN arizona_jds_start_timeout(i, w) ELSE w

\* lines 1563-1692, the lock held
JackdetBody ==
    /\ Alive
    /\ irq_pc = "jackdet"
    /\ cancelled_hp' = FALSE
    /\ cancelled_state' = FALSE
    /\ \E val \in {-EIO, JD_CLEAR, JD_SET}, io \in StartIo :
        IF val < 0
        THEN \* the read failed
             /\ info' = Leave(Log(Fresh(info), "jackdet_fail",
                                   info.jd_last,
                                   Cancelled(cancelled_hp, cancelled_state)))
             /\ UNCHANGED <<hpdet_work, state_timeout_work>>
        ELSE IF JdDuplicate(val, info.last_jackdet)
        THEN \* suppressing duplicate JACKDET
             /\ info' = Leave(Log(Fresh(info), "jackdet_dup",
                                   info.jd_last,
                                   Cancelled(cancelled_hp, cancelled_state)))
             /\ hpdet_work' = (hpdet_work \/ cancelled_hp)
             /\ state_timeout_work' =
                    RearmIfCancelled(cancelled_state, info, state_timeout_work)
        ELSE IF val = JdPresent
        THEN LET i0 == [Enter(info, "jackdet_insert", info.jd_last)
                          EXCEPT !.last_jackdet = val, !.jd_last = "insert",
                                 !.timed_out = FALSE]
             IN IF ~cfg.hpdet_acc_id /\ cfg.init_mic_delay # 0
                THEN \* lines 1610-1614: msleep, the lock held
                     /\ info' = [JackdetReset(i0)
                                   EXCEPT !.lock = "arizona_jackdet"]
                     /\ UNCHANGED <<hpdet_work, state_timeout_work>>
                ELSE IF ~cfg.hpdet_acc_id
                THEN /\ StartTimeoutAndUnlock(JackdetInsert(i0, io),
                                           state_timeout_work)
                     /\ UNCHANGED hpdet_work
                ELSE /\ info' = Leave(i0)
                     /\ hpdet_work' = TRUE
                     /\ UNCHANGED state_timeout_work
        ELSE LET i0 == [Enter(info, "jackdet_remove", info.jd_last)
                          EXCEPT !.last_jackdet = val, !.jd_last = "remove",
                                 !.timed_out = FALSE]
             IN /\ info' = Leave(JackdetRemove(i0))
                /\ UNCHANGED <<hpdet_work, state_timeout_work>>
    /\ irq_pc' = IF info'.lock = "none" THEN "idle" ELSE "jackdet_msleep"
    /\ UNCHANGED <<cfg, micd_detect_work>>

\* lines 1616-1692: the handler wakes from msleep and goes on, the lock held
JackdetWake ==
    /\ Alive
    /\ irq_pc = "jackdet_msleep"
    /\ irq_pc' = "idle"
    /\ \E io \in StartIo :
        StartTimeoutAndUnlock(
            [arizona_jds_set_state(Enter(info, "jackdet_wake", ""),
                                   FirstState, io) EXCEPT !.lock = "none"],
            state_timeout_work)
    /\ UNCHANGED <<cfg, cancelled_hp, cancelled_state, hpdet_work,
                   micd_detect_work>>

----------------------------------------------------------------------------
(* arizona_hpdet_work *)

HpdetWork ==
    /\ Alive
    /\ hpdet_work
    /\ hpdet_work' = FALSE
    /\ \E io \in StartIo :
        info' = Leave(arizona_jds_set_state(Enter(info, "hpdet_work", ""),
                                            arizona_hpdet_acc_id, io))
    /\ UNCHANGED <<cfg, irq_pc, cancelled_hp, cancelled_state,
                   micd_detect_work, state_timeout_work>>

----------------------------------------------------------------------------
(* arizona_hpdet_handler *)

HpdetIrq ==
    /\ Alive
    /\ irq_pc = "idle"
    /\ state_timeout_work' = NoTimeout
    /\ irq_pc' = "hpdet"
    /\ NoLog
    /\ UNCHANGED <<cfg, cancelled_hp, cancelled_state, hpdet_work,
                   micd_detect_work>>

\* arizona_hpdet_handler without the switch on arizona_jds_get_mode
hpdet_handler_any_mode(i, read, io) ==
    IF read = -EAGAIN THEN i ELSE arizona_jds_reading(i, read, io)

\* lines 1368-1395, the lock held
arizona_hpdet_handler(i, read, io) ==
    IF arizona_jds_get_mode(i) \notin {ARIZONA_ACCDET_MODE_HPL, ARIZONA_ACCDET_MODE_HPR}
    THEN Log(i, "spurious", "", 0)
    ELSE IF read = -EAGAIN
    THEN i
    ELSE arizona_jds_reading(i, read, io)

HpdetBody ==
    /\ Alive
    /\ irq_pc = "hpdet"
    /\ irq_pc' = "idle"
    /\ \E read \in HpdetReadResults, io \in StartIo :
        StartTimeoutAndUnlock(
            arizona_hpdet_handler(Enter(info, "hpdet_handler", ""), read, io),
            state_timeout_work)
    /\ UNCHANGED <<cfg, cancelled_hp, cancelled_state, hpdet_work, micd_detect_work>>

----------------------------------------------------------------------------
(* arizona_micdet and arizona_micd_handler *)

\* the debounce applied whatever info->detecting says
MicdDebounce_always(i) == cfg.micd_detect_debounce

\* lines 1458 and 1465-1466: debounce = pdata.micd_detect_debounce;
\* if (!info->detecting) debounce = 0
MicdDebounce(i) == IF ~i.detecting THEN 0 ELSE cfg.micd_detect_debounce

\* lines 1460-1484: the pending handler is cancelled; with a debounce (only
\* while detecting) the handler is scheduled, without one it is called
MicdetIrq ==
    /\ Alive
    /\ irq_pc = "idle"
    /\ micd_detect_work # "running"
    /\ IF MicdDebounce(info) # 0
       THEN micd_detect_work' = "pending" /\ irq_pc' = "idle"
       ELSE micd_detect_work' = "idle" /\ irq_pc' = "micd_cancel"
    /\ NoLog
    /\ UNCHANGED <<cfg, cancelled_hp, cancelled_state, hpdet_work,
                   state_timeout_work>>

\* lines 1409-1433, the lock held
arizona_micd_handler(i, read, io) ==
    IF arizona_jds_get_mode(i) # ARIZONA_ACCDET_MODE_MIC
    THEN Log(i, "spurious", "", 0)
    ELSE IF read = -EAGAIN
    THEN i
    ELSE arizona_jds_reading(i, read, io)

MicdHandlerBody ==
    \E read \in MicdReadResults, io \in StartIo :
        StartTimeoutAndUnlock(
            arizona_micd_handler(Enter(info, "micd_handler", ""), read, io),
            state_timeout_work)

\* the handler called from the interrupt
MicdCallCancel ==
    /\ Alive
    /\ irq_pc = "micd_cancel"
    /\ state_timeout_work' = NoTimeout
    /\ irq_pc' = "micd"
    /\ NoLog
    /\ UNCHANGED <<cfg, cancelled_hp, cancelled_state, hpdet_work,
                   micd_detect_work>>

MicdCallBody ==
    /\ Alive
    /\ irq_pc = "micd"
    /\ irq_pc' = "idle"
    /\ MicdHandlerBody
    /\ UNCHANGED <<cfg, cancelled_hp, cancelled_state, hpdet_work, micd_detect_work>>

\* the handler run as micd_detect_work
MicdWorkCancel ==
    /\ Alive
    /\ micd_detect_work = "pending"
    /\ micd_detect_work' = "running"
    /\ state_timeout_work' = NoTimeout
    /\ NoLog
    /\ UNCHANGED <<cfg, irq_pc, cancelled_hp, cancelled_state, hpdet_work>>

MicdWorkBody ==
    /\ Alive
    /\ micd_detect_work = "running"
    /\ micd_detect_work' = "idle"
    /\ MicdHandlerBody
    /\ UNCHANGED <<cfg, irq_pc, cancelled_hp, cancelled_state, hpdet_work>>

----------------------------------------------------------------------------
(* arizona_jds_timeout_work *)

\* info->state->timeout(info); arizona_jds_start_timeout(info)
arizona_jds_timeout_work(i, io) ==
    IF i.state = NONE
    THEN [i EXCEPT !.oops = "timeout: info->state is NULL"]
    ELSE IF ~HasTimeout(i.state)
    THEN [i EXCEPT !.oops = "timeout: info->state->timeout is NULL"]
    ELSE arizona_micd_mic_timeout(i, io)

TimeoutWork ==
    /\ Alive
    /\ state_timeout_work.pending
    /\ \E io \in StartIo :
        StartTimeoutAndUnlock(
            arizona_jds_timeout_work(Enter(info, "timeout_work", ""), io),
            NoTimeout)
    /\ UNCHANGED <<cfg, irq_pc, cancelled_hp, cancelled_state, hpdet_work,
                   micd_detect_work>>

----------------------------------------------------------------------------
(* The driver *)

Next ==
    \/ JackdetIrq
    \/ JackdetBody
    \/ HpdetWork
    \/ HpdetIrq
    \/ HpdetBody
    \/ MicdetIrq
    \/ MicdCallCancel
    \/ MicdCallBody
    \/ MicdWorkCancel
    \/ MicdWorkBody
    \/ TimeoutWork

Spec == Init /\ [][Next]_vars

(* Fair scheduling.  A threaded handler that has been entered runs to its
   end, a work that is pending or running is run by the workqueue, and the
   detection hardware keeps raising its interrupts: each of these steps is
   taken again and again if it is possible again and again (strong
   fairness, so that no storm of other interrupts starves it).  Nothing is
   assumed of arizona_jackdet being raised: that is the user moving the
   plug.  Strong fairness of the two works that only call
   arizona_jds_set_state is written out, with the condition under which
   the work can run. *)
Fairness ==
    /\ SF_vars(JackdetBody)
    /\ SF_vars(HpdetIrq)
    /\ SF_vars(HpdetBody)
    /\ SF_vars(MicdetIrq)
    /\ SF_vars(MicdCallCancel)
    /\ SF_vars(MicdCallBody)
    /\ SF_vars(MicdWorkCancel)
    /\ SF_vars(MicdWorkBody)
    /\ (<>[](~(Alive /\ hpdet_work)) \/ []<><<HpdetWork>>_vars)
    /\ (<>[](~(Alive /\ state_timeout_work.pending))
           \/ []<><<TimeoutWork>>_vars)

SpecFair == Spec /\ Fairness

----------------------------------------------------------------------------
(* The driver until and after arizona_extcon_remove *)

\* lines 2165-2201: the four interrupts are freed (arizona_free_irq waits
\* for a handler that is running), then
\* cancel_delayed_work_sync(&info->hpdet_work)
arizona_extcon_remove ==
    /\ Alive
    /\ ~info.removed
    /\ irq_pc = "idle"
    /\ hpdet_work' = FALSE
    /\ info' = [Fresh(info) EXCEPT !.removed = TRUE]
    /\ UNCHANGED <<cfg, irq_pc, cancelled_hp, cancelled_state,
                   micd_detect_work, state_timeout_work>>

\* the interrupts are handled until they are freed; the workqueue runs
\* whatever is pending, before and after
NextRemove ==
    \/ ~info.removed /\ JackdetIrq
    \/ ~info.removed /\ JackdetBody
    \/ ~info.removed /\ HpdetIrq
    \/ ~info.removed /\ HpdetBody
    \/ ~info.removed /\ MicdetIrq
    \/ ~info.removed /\ MicdCallCancel
    \/ ~info.removed /\ MicdCallBody
    \/ HpdetWork
    \/ MicdWorkCancel
    \/ MicdWorkBody
    \/ TimeoutWork
    \/ arizona_extcon_remove

SpecRemove == Init /\ [][NextRemove]_vars

----------------------------------------------------------------------------
(* The driver with a delay before the first measurement (pdata.init_mic_delay)
   and a reader of the sysfs attribute hp_impedance *)

\* lines 1791-1799: no lock is taken; the entry logs the holder of the lock
\* at the time of the read and the value read
arizona_extcon_show ==
    /\ Alive
    /\ info' = Log(Fresh(info), "show", info.lock, info.hp_impedance)
    /\ UNCHANGED <<cfg, irq_pc, cancelled_hp, cancelled_state, hpdet_work,
                   micd_detect_work, state_timeout_work>>

\* mutex_lock(&info->lock) returns
LockFree == info.lock = "none"

LockConfigs ==
    {[c EXCEPT !.init_mic_delay = d] :
        c \in {e \in Configs : /\ e.custom_jd = NONE
                                /\ e.hpdet_moisture_imp = 0
                                /\ e.fixed_hpdet_imp = 0
                                /\ e.hpdet_channel = 0
                                /\ ~e.hpdet_acc_id_line /\ ~e.hpdet_id_gpio},
        d \in {0, 10}}

InitLock ==
    /\ cfg \in LockConfigs
    /\ info = InitInfo
    /\ irq_pc = "idle"
    /\ cancelled_hp = FALSE
    /\ cancelled_state = FALSE
    /\ hpdet_work = FALSE
    /\ micd_detect_work = "idle"
    /\ state_timeout_work = NoTimeout

\* the steps before a lock is taken go on while the lock is held
NextLock ==
    \/ JackdetIrq
    \/ LockFree /\ JackdetBody
    \/ JackdetWake
    \/ LockFree /\ HpdetWork
    \/ HpdetIrq
    \/ LockFree /\ HpdetBody
    \/ MicdetIrq
    \/ MicdCallCancel
    \/ LockFree /\ MicdCallBody
    \/ MicdWorkCancel
    \/ LockFree /\ MicdWorkBody
    \/ LockFree /\ TimeoutWork
    \/ arizona_extcon_show

SpecLock == InitLock /\ [][NextLock]_vars

----------------------------------------------------------------------------
(* arizona_micd_read against the registers: the software comparison of the
   ADC value (ARIZONA_MIC_DETECT_4) and the polling of ARIZONA_MIC_DETECT_3.
   The bit ARIZONA_MICD_ENA of ARIZONA_MIC_DETECT_1 is the field micd_ena;
   the locals i and val of the loop are the fields rd_i and rd_val. *)

INT_MAX == 2147483647

QUICK_HEADPHONE_MAX_OHM == 3
MICROPHONE_MIN_OHM == 1257
MICROPHONE_MAX_OHM == 30000

\* the largest ADC code tried; arizona_micd_levels has 65 entries, so the
\* codes from 65 on are beyond the table
MaxAdcVal == 66

\* val & MICD_LVL_0_TO_8
MICD_LVL_0_TO_8(val) == \E n \in 0..8 : HasBit(val, MicdLvl(n))

\* lines 410-414, val being the code that ARIZONA_MICDET_ADCVAL_MASK leaves
AdcOhms(val) ==
    IF val < Len(arizona_micd_levels) THEN arizona_micd_levels[val + 1]
                                      ELSE INT_MAX

\* the thresholds taken as strict upper bounds
AdcWord_strict(val) ==
    IF val < QUICK_HEADPHONE_MAX_OHM
    THEN ARIZONA_MICD_STS + ARIZONA_MICD_LVL_0
    ELSE IF val < MICROPHONE_MIN_OHM
    THEN ARIZONA_MICD_STS + MicdLvl(1)
    ELSE IF val < MICROPHONE_MAX_OHM
    THEN ARIZONA_MICD_STS + ARIZONA_MICD_LVL_8
    ELSE ARIZONA_MICD_LVL_8

\* lines 416-423
AdcWord(val) ==
    IF val <= QUICK_HEADPHONE_MAX_OHM
    THEN ARIZONA_MICD_STS + ARIZONA_MICD_LVL_0
    ELSE IF val <= MICROPHONE_MIN_OHM
    THEN ARIZONA_MICD_STS + MicdLvl(1)
    ELSE IF val <= MICROPHONE_MAX_OHM
    THEN ARIZONA_MICD_STS + ARIZONA_MICD_LVL_8
    ELSE ARIZONA_MICD_LVL_8

\* lines 378-442: the software comparison runs to its return; the other
\* path enters the loop with i = 0 and val = 0.  A register access that
\* fails leaves the register as it was.
arizona_micd_read(i, adc, io) ==
    IF i.detecting /\ cfg.micd_software_compare
    THEN LET micd_ena == i.micd_ena
             disabled == [i EXCEPT !.micd_ena = FALSE]
         IN  IF io = "disable_fails"
             THEN [i EXCEPT !.ret = -EIO]
             ELSE IF io = "adc_fails"
             THEN [disabled EXCEPT !.ret = -EIO]
             ELSE IF io = "restore_fails"
             THEN [disabled EXCEPT !.ret = -EIO]
             ELSE [disabled EXCEPT !.micd_ena = micd_ena,
                                   !.ret = AdcWord(AdcOhms(adc))]
    ELSE [i EXCEPT !.polling = TRUE, !.rd_i = 0, !.rd_val = 0]

\* the loop with room for an eleventh pass
MicdPoll_eleven(i, val, io) ==
    IF i.rd_i < 11 /\ ~MICD_LVL_0_TO_8(i.rd_val)
    THEN IF io # "ok"
         THEN [i EXCEPT !.polling = FALSE, !.ret = -EIO]
         ELSE IF ~HasBit(val, ARIZONA_MICD_VALID)
         THEN [i EXCEPT !.polling = FALSE, !.rd_val = val, !.ret = -EINVAL]
         ELSE [i EXCEPT !.rd_val = val, !.rd_i = @ + 1]
    ELSE IF i.rd_i = 10 /\ ~MICD_LVL_0_TO_8(i.rd_val)
    THEN [i EXCEPT !.polling = FALSE, !.ret = -EINVAL]
    ELSE [i EXCEPT !.polling = FALSE, !.ret = i.rd_val]

\* lines 442-465: one pass of the loop, or the statements after it
MicdPoll(i, val, io) ==
    IF i.rd_i < 10 /\ ~MICD_LVL_0_TO_8(i.rd_val)
    THEN IF io # "ok"
         THEN [i EXCEPT !.polling = FALSE, !.ret = -EIO]
         ELSE IF ~HasBit(val, ARIZONA_MICD_VALID)
         THEN [i EXCEPT !.polling = FALSE, !.rd_val = val, !.ret = -EINVAL]
         ELSE [i EXCEPT !.rd_val = val, !.rd_i = @ + 1]
    ELSE IF i.rd_i = 10 /\ ~MICD_LVL_0_TO_8(i.rd_val)
    THEN [i EXCEPT !.polling = FALSE, !.ret = -EINVAL]
    ELSE [i EXCEPT !.polling = FALSE, !.ret = i.rd_val]

\* the default platform data with either comparison; detection enabled or
\* not, the detecting flag set or not
InitMicdRead ==
    /\ \E c \in DefaultConfigs, sw \in BOOLEAN :
         cfg = [micd_software_compare |-> sw] @@ c
    /\ \E detecting \in BOOLEAN, micd_ena \in BOOLEAN :
         info = [micd_ena |-> micd_ena, polling |-> FALSE,
                 rd_i |-> 0, rd_val |-> 0]
                @@ [InitInfo EXCEPT !.detecting = detecting]
    /\ irq_pc = "idle"
    /\ cancelled_hp = FALSE
    /\ cancelled_state = FALSE
    /\ hpdet_work = FALSE
    /\ micd_detect_work = "idle"
    /\ state_timeout_work = NoTimeout

\* a handler calls arizona_micd_read; ARIZONA_MIC_DETECT_1 and
\* ARIZONA_MIC_DETECT_4 are accessed by the software comparison only
MicdReadCall ==
    /\ irq_pc = "idle"
    /\ \E adc \in IF info.detecting /\ cfg.micd_software_compare
                   THEN 0..MaxAdcVal ELSE {0},
          io \in IF info.detecting /\ cfg.micd_software_compare
                  THEN {"ok", "disable_fails", "adc_fails", "restore_fails"}
                  ELSE {"ok"} :
        info' = arizona_micd_read(Log(Fresh(info), "micd_read", io, adc),
                                  adc, io)
    /\ irq_pc' = IF info'.polling THEN "micd_read_poll" ELSE "idle"
    /\ UNCHANGED <<cfg, cancelled_hp, cancelled_state, hpdet_work,
                   micd_detect_work, state_timeout_work>>

\* the loop of arizona_micd_read: ARIZONA_MIC_DETECT_3 shows nothing, a
\* level with or without the valid bit, or the valid bit alone
MicdReadPoll ==
    /\ irq_pc = "micd_read_poll"
    /\ \E val \in {0, ARIZONA_MICD_VALID, ARIZONA_MICD_LVL_0,
                   ARIZONA_MICD_VALID + ARIZONA_MICD_LVL_8,
                   ARIZONA_MICD_VALID + ARIZONA_MICD_STS + MicdLvl(1)},
          io \in {"ok", "read_fails"} :
        info' = MicdPoll(info, val, io)
    /\ irq_pc' = IF info'.polling THEN "micd_read_poll" ELSE "idle"
    /\ UNCHANGED <<cfg, cancelled_hp, cancelled_state, hpdet_work,
                   micd_detect_work, state_timeout_work>>

NextMicdRead == MicdReadCall \/ MicdReadPoll

SpecMicdRead == InitMicdRead /\ [][NextMicdRead]_vars

\* the thread that runs the handler is not stopped for ever inside the loop
SpecMicdReadFair == SpecMicdRead /\ WF_vars(MicdReadPoll)

----------------------------------------------------------------------------
(* The USB PHY driver, phy-msm-qusb.c.  In this section the record info is
   the struct qusb_phy: its flags, the driver's enables less its disables
   of each clock (ref_clk, cfg_ahb_clk) and of each regulator (vdd,
   vdda18, vdda33), the POWER_DOWN bit of QUSB2PHY_PORT_POWERDOWN
   (power_down), and where the device is in its life (bound).  cfg is the
   device tree: qcom,emulation and the presence of qscratch_base.  The
   tuning registers and QUSB2PHY_PORT_UTMI_CTRL2 are written with
   constants and are left out. *)

\* how far the enables and the disables of a clock may run apart
MaxClkCount == 3

\* what can fail in a call: nothing, regulator_enable of one supply, a
\* resource of the probe, usb_add_phy_dev
QusbIo == {"ok", "vdd_fails", "vdda18_fails", "vdda33_fails"}
QusbProbeIo == QusbIo \cup {"resource_fails", "add_fails"}

\* the log of the last call
QusbCalled(q, op, st) == [q EXCEPT !.ev = <<Ev(op, st, 0, "")>>]

\* clk_prepare_enable(qphy->ref_clk); clk_prepare_enable(qphy->cfg_ahb_clk)
QusbClocksOn(q) == [q EXCEPT !.ref_clk = @ + 1, !.cfg_ahb_clk = @ + 1]

\* clk_disable_unprepare(qphy->cfg_ahb_clk); clk_disable_unprepare(qphy->ref_clk)
QusbClocksOff(q) == [q EXCEPT !.cfg_ahb_clk = @ - 1, !.ref_clk = @ - 1]

\* qusb_phy_enable_power leaving vdd enabled when a later supply fails
qusb_phy_enable_power_leaks(q, on, io) ==
    LET l == [q EXCEPT !.ev = Append(@, Ev("enable_power", io,
                                           IF on THEN 1 ELSE 0, ""))]
    IN IF l.power_enabled = on
       THEN [l EXCEPT !.power_ret = 0]
       ELSE IF ~on
       THEN [l EXCEPT !.vdda33 = @ - 1, !.vdda18 = @ - 1, !.vdd = @ - 1,
                      !.power_enabled = FALSE, !.power_ret = 0]
       ELSE IF io = "vdd_fails"
       THEN [l EXCEPT !.power_ret = -EIO]
       ELSE IF io \in {"vdda18_fails", "vdda33_fails"}
       THEN [l EXCEPT !.vdd = @ + 1,
                      !.power_enabled = FALSE, !.power_ret = -EIO]
       ELSE [l EXCEPT !.vdd = @ + 1, !.vdda18 = @ + 1, !.vdda33 = @ + 1,
                      !.power_enabled = TRUE, !.power_ret = 0]

\* lines 87-131
qusb_phy_enable_power(q, on, io) ==
    LET l == [q EXCEPT !.ev = Append(@, Ev("enable_power", io,
                                           IF on THEN 1 ELSE 0, ""))]
    IN IF l.power_enabled = on
       THEN [l EXCEPT !.power_ret = 0]
       ELSE IF ~on
       THEN [l EXCEPT !.vdda33 = @ - 1, !.vdda18 = @ - 1, !.vdd = @ - 1,
                      !.power_enabled = FALSE, !.power_ret = 0]
       ELSE IF io = "vdd_fails"
       THEN [l EXCEPT !.power_ret = -EIO]
       ELSE IF io = "vdda18_fails"
       \* vdd enabled; disable_vdd
       THEN [l EXCEPT !.vdd = (@ + 1) - 1,
                      !.power_enabled = FALSE, !.power_ret = -EIO]
       ELSE IF io = "vdda33_fails"
       \* vdd and vdda18 enabled; disable_vdda18, disable_vdd
       THEN [l EXCEPT !.vdd = (@ + 1) - 1, !.vdda18 = (@ + 1) - 1,
                      !.power_enabled = FALSE, !.power_ret = -EIO]
       ELSE [l EXCEPT !.vdd = @ + 1, !.vdda18 = @ + 1, !.vdda33 = @ + 1,
                      !.power_enabled = TRUE, !.power_ret = 0]

\* lines 133-196; with qcom,emulation QUSB2PHY_PORT_POWERDOWN is not written
qusb_phy_init(q) ==
    LET q1 == IF ~q.clocks_enabled
              THEN [QusbClocksOn(q) EXCEPT !.clocks_enabled = TRUE]
              ELSE q
    IN [q1 EXCEPT !.power_down = IF cfg.emulation THEN @ ELSE FALSE,
                  !.ret = 0]

\* lines 198-219
qusb_phy_shutdown(q) ==
    LET q1 == IF ~q.clocks_enabled
              THEN [QusbClocksOn(q) EXCEPT !.clocks_enabled = TRUE]
              ELSE q
    IN [QusbClocksOff([q1 EXCEPT !.power_down = TRUE])
          EXCEPT !.clocks_enabled = FALSE]

\* lines 246-286; the result of qusb_phy_enable_power is not looked at
qusb_phy_set_suspend(q, suspend, io) ==
    IF ~q.clocks_enabled
    THEN [q EXCEPT !.ret = -EAGAIN]
    ELSE IF q.suspended /\ suspend
    THEN [q EXCEPT !.ret = 0]
    ELSE IF suspend
    THEN IF q.cable_connected
         THEN [q EXCEPT !.ret = -EAGAIN]
         ELSE [qusb_phy_enable_power(
                   QusbClocksOff([q EXCEPT !.power_down = TRUE]), FALSE, io)
                 EXCEPT !.suspended = TRUE, !.ret = 0]
    ELSE [QusbClocksOn(qusb_phy_enable_power(q, TRUE, io))
            EXCEPT !.power_down = FALSE, !.suspended = FALSE, !.ret = 0]

\* lines 330-436: a resource that cannot be had ends the probe before
\* anything is switched on; neither the failure of usb_add_phy_dev is
\* undone nor can qusb_phy_reset fail
qusb_phy_probe(q, io) ==
    IF io = "resource_fails"
    THEN [q EXCEPT !.ret = -EIO]
    ELSE LET p == qusb_phy_enable_power(q, TRUE, io)
         IN IF p.power_ret # 0
            THEN [p EXCEPT !.ret = p.power_ret]
            ELSE [QusbClocksOn(p)
                    EXCEPT !.clocks_enabled = TRUE,
                           !.bound = IF io = "add_fails" THEN "failed"
                                                         ELSE "bound",
                           !.ret = IF io = "add_fails" THEN -EIO ELSE 0]

\* lines 438-453
qusb_phy_remove(q) ==
    LET q1 == IF q.clocks_enabled
              THEN [QusbClocksOff(q) EXCEPT !.clocks_enabled = FALSE]
              ELSE q
    IN [qusb_phy_enable_power([q1 EXCEPT !.bound = "removed"], FALSE, "ok")
          EXCEPT !.ret = 0]

\* devm_kzalloc: every field zero
InitQusb ==
    /\ cfg \in [emulation : BOOLEAN, qscratch_base : BOOLEAN]
    /\ info = [bound |-> "unbound", power_enabled |-> FALSE,
               clocks_enabled |-> FALSE, cable_connected |-> FALSE,
               suspended |-> FALSE, power_down |-> FALSE,
               ref_clk |-> 0, cfg_ahb_clk |-> 0,
               vdd |-> 0, vdda18 |-> 0, vdda33 |-> 0,
               ret |-> 0, power_ret |-> 0, ev |-> <<>>]
    /\ irq_pc = "idle"
    /\ cancelled_hp = FALSE
    /\ cancelled_state = FALSE
    /\ hpdet_work = FALSE
    /\ micd_detect_work = "idle"
    /\ state_timeout_work = NoTimeout

QusbFrame ==
    UNCHANGED <<cfg, irq_pc, cancelled_hp, cancelled_state, hpdet_work,
                micd_detect_work, state_timeout_work>>

\* the clocks stay within the counts followed
QusbBounded ==
    /\ info.ref_clk < MaxClkCount
    /\ info.ref_clk > -MaxClkCount

QusbProbe ==
    /\ info.bound = "unbound"
    /\ \E io \in QusbProbeIo :
         info' = qusb_phy_probe(QusbCalled(info, "probe", io), io)
    /\ QusbFrame

QusbInit ==
    /\ info.bound = "bound" /\ QusbBounded
    /\ info' = qusb_phy_init(QusbCalled(info, "init", ""))
    /\ QusbFrame

QusbShutdown ==
    /\ info.bound = "bound" /\ QusbBounded
    /\ info' = qusb_phy_shutdown(QusbCalled(info, "shutdown", ""))
    /\ QusbFrame

QusbSetSuspend ==
    /\ info.bound = "bound" /\ QusbBounded
    /\ \E suspend \in BOOLEAN, io \in QusbIo :
         info' = qusb_phy_set_suspend(
                     QusbCalled(info, "set_suspend",
                                IF suspend THEN "1" ELSE "0"),
                     suspend, io)
    /\ QusbFrame

\* lines 288-328: qusb_phy_notify_connect and qusb_phy_notify_disconnect,
\* installed only with qscratch_base
QusbNotify ==
    /\ info.bound = "bound" /\ cfg.qscratch_base
    /\ \E connected \in BOOLEAN :
         info' = [QusbCalled(info, "notify", "")
                    EXCEPT !.cable_connected = connected, !.ret = 0]
    /\ QusbFrame

QusbRemove ==
    /\ info.bound = "bound" /\ QusbBounded
    /\ info' = qusb_phy_remove(QusbCalled(info, "remove", ""))
    /\ QusbFrame

NextQusb ==
    \/ QusbProbe
    \/ QusbInit
    \/ QusbShutdown
    \/ QusbSetSuspend
    \/ QusbNotify
    \/ QusbRemove

SpecQusb == InitQusb /\ [][NextQusb]_vars

----------------------------------------------------------------------------
(* arizona_extcon_probe, from the choice of the range table (line 1967) to
   the requests of the interrupts (line 2111), for any table the platform
   data can hold *)

\* a sorted pair only
MicdRangesSorted_first_pair(ranges) ==
    Len(ranges) < 2 \/ ranges[1] <= ranges[2]

\* lines 1980-1991: no range has a max below that of the range before it
MicdRangesSorted(ranges) ==
    \A n \in 2..Len(ranges) : ~(ranges[n - 1] > ranges[n])

\* lines 1999-2002: the first level that is not below max, or
\* ARIZONA_NUM_MICD_BUTTON_LEVELS if there is none
MicdLevelFor(max) ==
    LET js == {j \in 0..(ARIZONA_NUM_MICD_BUTTON_LEVELS - 1) :
                  arizona_micd_levels[j + 1] >= max}
    IN IF js = {} THEN ARIZONA_NUM_MICD_BUTTON_LEVELS
       ELSE CHOOSE j \in js : \A k \in js : j <= k

\* the number of ranges the loop of line 1998 sets up before it ends or
\* finds an unsupported level
MicdRangesSetUp(ranges) ==
    LET bad == {n \in 0..(Len(ranges) - 1) :
                   MicdLevelFor(ranges[n + 1]) = ARIZONA_NUM_MICD_BUTTON_LEVELS}
    IN IF bad = {} THEN Len(ranges)
       ELSE CHOOSE n \in bad : \A k \in bad : n <= k

\* the indices arizona_micd_set_level and the enable bits can be given
MicdSlots == 0..ARIZONA_MAX_MICD_RANGE

\* the interrupts the probe requests
ProbeIrqs == {"JACKDET rise", "JACKDET fall", "MICDET", "HPDET"}

\* the outcome of the requests: all granted, or the last one refused
ProbeIo == {"ok", "irq_fails"}

\* micd_level[n] is the level programmed for index n (-1: never written),
\* micd_enable the bits set in ARIZONA_MIC_DETECT_2
arizona_extcon_probe(i, pdata_ranges, io) ==
    LET ranges == IF Len(pdata_ranges) # 0 THEN pdata_ranges
                  ELSE micd_default_ranges
        i0 == [i EXCEPT !.probed = TRUE, !.micd_ranges = ranges,
                        !.num_micd_ranges = Len(ranges)]
        done == MicdRangesSetUp(ranges)
    IN IF ~MicdRangesSorted(ranges)
       THEN [i0 EXCEPT !.ret = -EINVAL]
       ELSE IF done < Len(ranges)
       THEN [i0 EXCEPT !.micd_level =
                          [n \in MicdSlots |->
                              IF n < done THEN MicdLevelFor(ranges[n + 1])
                              ELSE -1],
                       !.micd_enable = {n \in MicdSlots : n < done},
                       !.ret = -EINVAL]
       ELSE [i0 EXCEPT !.micd_level =
                          [n \in MicdSlots |->
                              IF n < done THEN MicdLevelFor(ranges[n + 1])
                              ELSE IF n < ARIZONA_MAX_MICD_RANGE THEN 63
                              ELSE -1],
                       !.micd_enable = {n \in MicdSlots : n < done},
                       !.irqs = IF io = "ok" THEN ProbeIrqs ELSE {},
                       !.ret = IF io = "ok" THEN 0 ELSE -EIO]

\* max values of a table: two supported levels (the second is the largest
\* of the ARIZONA_NUM_MICD_BUTTON_LEVELS levels) and one above them
ProbeMaxes == {28, 1257, 1258}

\* pdata.micd_ranges: empty (the default table is used), every table of up
\* to three ranges, and the tables of ARIZONA_MAX_MICD_RANGE ranges and of
\* one more whose ranges but the last three have the lowest max
ProbeTables ==
    UNION {[1..n -> ProbeMaxes] : n \in 0..3} \cup
    {[m \in 1..(k + 3) |-> IF m <= k THEN 28 ELSE t[m - k]] :
        k \in {ARIZONA_MAX_MICD_RANGE - 3, ARIZONA_MAX_MICD_RANGE - 2},
        t \in [1..3 -> ProbeMaxes]}

\* the device before the probe has chosen its table
InitProbe ==
    /\ \E c \in DefaultConfigs, t \in ProbeTables :
         cfg = [micd_ranges |-> t] @@ c
    /\ info = [probed |-> FALSE, micd_ranges |-> <<>>, num_micd_ranges |-> 0,
               micd_level |-> [n \in MicdSlots |-> -1], micd_enable |-> {},
               irqs |-> {}] @@ InitInfo
    /\ irq_pc = "idle"
    /\ cancelled_hp = FALSE
    /\ cancelled_state = FALSE
    /\ hpdet_work = FALSE
    /\ micd_detect_work = "idle"
    /\ state_timeout_work = NoTimeout

Probe ==
    /\ ~info.probed
    /\ \E io \in ProbeIo :
         info' = arizona_extcon_probe(info, cfg.micd_ranges, io)
    /\ UNCHANGED <<cfg, irq_pc, cancelled_hp, cancelled_state, hpdet_work,
                   micd_detect_work, state_timeout_work>>

NextProbe == Probe

SpecProbe == InitProbe /\ [][NextProbe]_vars

----------------------------------------------------------------------------
(* arizona_jds_set_state called by another module (EXPORT_SYMBOL_GPL), the
   lock held, with any state that module can name, in any sequence *)

ApiSetState ==
    /\ Alive
    /\ \E new_state \in ExportedStates \cup {NONE}, io \in StartIo :
        info' = Leave(arizona_jds_set_state(
                          Enter(info, "api_set_state", new_state), new_state, io))
    /\ UNCHANGED <<cfg, irq_pc, cancelled_hp, cancelled_state, hpdet_work,
                   micd_detect_work, state_timeout_work>>

NextApi == ApiSetState

SpecApi == Init /\ [][NextApi]_vars

----------------------------------------------------------------------------
(* The resources of the detection states: the runtime-PM references the
   starts take (pm_usage) and the enables of MICVDD less its disables
   (micvdd), over any sequence of changes of state, regulator_enable
   failing or not *)

\* how far the disables of MICVDD may run ahead of its enables
MaxUnbalanced == 2

SetStateAny ==
    /\ Alive
    /\ info.micvdd > -MaxUnbalanced
    /\ \E new_state \in JdStates \cup {NONE},
          io \in StartIo \cup {"enable_fails"} :
        info' = Leave(arizona_jds_set_state(
                          Enter(info, "set_state_any", new_state),
                          new_state, io))
    /\ UNCHANGED <<cfg, irq_pc, cancelled_hp, cancelled_state, hpdet_work,
                   micd_detect_work, state_timeout_work>>

NextPower == SetStateAny

SpecPower == Init /\ [][NextPower]_vars

----------------------------------------------------------------------------
(* arizona_micd_button_reading applied to any reading, for any number of
   configured ranges *)

\* the words arizona_micd_read can return: an error, or the valid bit, the
\* status bit and at most two of the level bits 0..8
ButtonReadings ==
    {-EINVAL} \cup
    {ARIZONA_MICD_VALID + sts * ARIZONA_MICD_STS + lvl * ARIZONA_MICD_LVL_0 :
        sts \in {0, 1},
        lvl \in {0} \cup {IF a = b THEN 2 ^ a ELSE 2 ^ a + 2 ^ b : a, b \in 0..8}}

\* the default platform data with n configured ranges
ButtonConfigs ==
    {[c EXCEPT !.num_micd_ranges = n] :
        c \in DefaultConfigs,
        n \in 1..ARIZONA_MAX_MICD_RANGE}

InitButton ==
    /\ cfg \in ButtonConfigs
    /\ info = [InitInfo EXCEPT !.state = arizona_micd_button, !.mic = TRUE,
                               !.last_jackdet = JdPresent, !.jd_last = "insert",
                               !.edev = BIT_HEADSET]
    /\ irq_pc = "idle"
    /\ cancelled_hp = FALSE
    /\ cancelled_state = FALSE
    /\ hpdet_work = FALSE
    /\ micd_detect_work = "idle"
    /\ state_timeout_work = NoTimeout

\* arizona_micd_handler with arizona_micd_button active
ButtonReading ==
    /\ Alive
    /\ \E val \in ButtonReadings :
        info' = Leave(arizona_micd_handler(
                          Enter(info, "micd_handler", ""), val, "ok"))
    /\ UNCHANGED <<cfg, irq_pc, cancelled_hp, cancelled_state, hpdet_work,
                   micd_detect_work, state_timeout_work>>

NextButton == ButtonReading

SpecButton == InitButton /\ [][NextButton]_vars

----------------------------------------------------------------------------
(* arizona_hpdet_read applied to any sequence of readings of one or more
   measurements, for the three revisions of the detection hardware and
   with or without an external resistor *)

\* pdata.hpdet_ext_res: none, or one below and one above the first ranges
HpdetExtRes == {0, 9, 100}

\* ohms a measurement can show: the boundaries of arizona_hpdet_c_ranges,
\* their neighbours and the largest value of the level field
HpdetOhms == {0, 7, 8, 29, 30, 99, 100, 999, 1000, 9999, 10000, 16383}

\* words of ARIZONA_HEADPHONE_DETECT_2: not complete; complete with a level
\* (first revision); complete, the value being in ARIZONA_HP_DACVAL (second
\* revision); complete with a level in half ohms (third revision)
HpdetStatusWords(ip) ==
    {0} \cup
    CASE ip = 0 -> {ARIZONA_HP_DONE_B} \cup
                   {ARIZONA_HP_DONE + lvl : lvl \in {0, 32, ARIZONA_HP_LVL_MASK}}
      [] ip = 1 -> {ARIZONA_HP_DONE, ARIZONA_HP_DONE_B}
      [] OTHER -> {ARIZONA_HP_DONE} \cup
                  {ARIZONA_HP_DONE_B + 2 * o + h : o \in HpdetOhms, h \in {0, 1}}

\* words of ARIZONA_HP_DACVAL: around the thresholds of
\* arizona_hpdet_b_ranges and around ARIZONA_HPDET_B_RANGE_MAX
HpdetDacWords == {0, 99, 100, 168, 169, 500, 1018, 1019, 1023}

\* ARIZONA_HP_DACVAL is read by the second revision only
DacWordsRead(ip) == IF ip = 1 THEN HpdetDacWords ELSE {0}

ReadsDone(ip) == IF ip = 1 THEN HpdetReadIo ELSE HpdetReadIo \ {"dacval_fails"}

HpdetReadConfigs ==
    {[c EXCEPT !.hpdet_ext_res = r] :
        c \in DefaultConfigs,
        r \in HpdetExtRes}

\* a measurement of the left channel has been started
InitHpdetRead ==
    /\ cfg \in HpdetReadConfigs
    /\ \E ip \in 0..2 :
         info = [InitInfo EXCEPT !.state = arizona_hpdet_left,
                                 !.started = {arizona_hpdet_left},
                                 !.last_jackdet = JdPresent,
                                 !.jd_last = "insert",
                                 !.hpdet_ip = ip]
    /\ irq_pc = "idle"
    /\ cancelled_hp = FALSE
    /\ cancelled_state = FALSE
    /\ hpdet_work = FALSE
    /\ micd_detect_work = "idle"
    /\ state_timeout_work = NoTimeout

\* the measurement was complete, both reads succeeded and the function
\* still asked to be called again
MovedRange(status, io, r) ==
    /\ io = "ok"
    /\ HasBit(status, IF r.hpdet_ip = 0 THEN ARIZONA_HP_DONE
                                        ELSE ARIZONA_HP_DONE_B)
    /\ r.ret = -EAGAIN

ReadObserved(i, r, status, dacval, io) ==
    [r EXCEPT !.read = [status |-> status, dacval |-> dacval, io |-> io,
                        range |-> i.hp_range],
              !.range_retries =
                  IF MovedRange(status, io, r) THEN @ + 1 ELSE @]

\* the interrupt of a measurement: arizona_hpdet_read
HpdetRead ==
    /\ \E status \in HpdetStatusWords(info.hpdet_ip),
          dacval \in DacWordsRead(info.hpdet_ip),
          io \in ReadsDone(info.hpdet_ip) :
        info' = ReadObserved(info,
                    arizona_hpdet_read(Enter(info, "hpdet_read", ""),
                                       status, dacval, io),
                    status, dacval, io)
    /\ UNCHANGED <<cfg, irq_pc, cancelled_hp, cancelled_state, hpdet_work,
                   micd_detect_work, state_timeout_work>>

\* the measurement is started again from the first range
HpdetRestart ==
    /\ info' = [arizona_hpdet_restart(Enter(info, "hpdet_restart", ""))
                  EXCEPT !.read = NoRead, !.range_retries = 0, !.ret = 0]
    /\ UNCHANGED <<cfg, irq_pc, cancelled_hp, cancelled_state, hpdet_work,
                   micd_detect_work, state_timeout_work>>

NextHpdetRead == HpdetRead \/ HpdetRestart

SpecHpdetRead == InitHpdetRead /\ [][NextHpdetRead]_vars

----------------------------------------------------------------------------
(* Reading the log of the last handler *)

ev == info.ev

\* the handler that ran last, and the branch it took
Ran(op) == ev # <<>> /\ ev[1].op = op

\* the state that was active when the last handler started
StateBefore == ev[1].now

HpdetStates == {arizona_hpdet_moisture, arizona_hpdet_left, arizona_hpdet_right,
                arizona_hpdet_acc_id}

\* the number of reports of a classification made by the last handler
Reports(state) ==
    Cardinality({k \in 1..Len(ev) : ev[k].op = "report" /\ ev[k].ret = state})

----------------------------------------------------------------------------
(* The claims *)

\* C1: at most one detection state is active (holds the device), it is the
\* state info->state names, and within every handler, the nested call made
\* from arizona_hpdet_acc_id_start included, a start is run only when no
\* state is active or right after the stop of the state that was active.
C1_OneActiveStopBeforeStart ==
    /\ Cardinality(info.started) <= 1
    /\ info.started \subseteq {info.state}
    /\ \A k \in 2..Len(ev) :
          ev[k].op = "start" =>
              \/ ev[k-1].now = NONE
              \/ ev[k-1].op = "stop" /\ ev[k-1].st = ev[k-1].now

\* C1 witness: hpdet_work has entered the accessory-ID state, whose start
\* made the nested call: arizona_hpdet_acc_id was stopped and then
\* arizona_micd_microphone started.
C1_Witness ==
    /\ Ran("hpdet_work")
    /\ \E k \in 2..Len(ev) :
          /\ ev[k].op = "start" /\ ev[k].st = arizona_micd_microphone
          /\ ev[k-1].op = "stop" /\ ev[k-1].st = arizona_hpdet_acc_id
    /\ info.state = arizona_micd_microphone

\* C2: when the start of the new state fails inside arizona_jds_set_state,
\* the call returns the start's negative error code and leaves no state
\* active.
C2_FailedStartLeavesNone ==
    \A k \in 2..Len(ev) :
        (ev[k].op = "set_state" /\ ev[k-1].op = "started" /\ ev[k-1].ret < 0) =>
            /\ ev[k].st = ev[k-1].st
            /\ ev[k].ret = ev[k-1].ret
            /\ ev[k].now = NONE
            /\ ev[k-1].st \notin info.started

\* C2 witness: a handler called arizona_jds_set_state for a headphone-detect
\* state whose start returned -EEXIST (a fixed impedance is configured).
C2_Witness ==
    \E k \in 2..Len(ev) :
        /\ ev[k].op = "set_state" /\ ev[k].ret = -EEXIST
        /\ ev[k-1].op = "started" /\ ev[k-1].ret = -EEXIST

\* C3: arizona_jds_set_state called with the state that is already active
\* runs neither stop nor start, changes nothing and returns 0: in every
\* state a sequence of calls reaches, the call with the active state gives
\* back the controller it was given, and a call that was made with the
\* active state logged nothing but its return.
C3_SameStateNoOp ==
    /\ \A io \in StartIo :
          LET i0 == [info EXCEPT !.ev = <<>>]
          IN arizona_jds_set_state(i0, info.state, io) =
                 [i0 EXCEPT !.ev = <<Ev("set_state", info.state, 0, info.state)>>]
    /\ (Ran("api_set_state") /\ ev[1].st = StateBefore) =>
          /\ Len(ev) = 2
          /\ ev[2] = Ev("set_state", StateBefore, 0, StateBefore)
          /\ info.state = StateBefore

\* C3 witness: another module called arizona_jds_set_state with
\* arizona_micd_button while arizona_micd_button was active.
C3_Witness ==
    /\ Ran("api_set_state")
    /\ ev[1].st = arizona_micd_button
    /\ StateBefore = arizona_micd_button

\* the accumulators the removal branch is to clear
AccumulatorsCleared ==
    /\ info.num_hpdet_res = 0
    /\ info.hpdet_res = <<0, 0, 0>>
    /\ ~info.hpdet_retried
    /\ ~info.mic
    /\ info.jack_flips = 0
    /\ info.hp_impedance = 0

\* C4: when arizona_jackdet has handled a removal, the stored readings and
\* their count, the retried flag, the mic-present flag, the jack-flip
\* counter and the last measured impedance are cleared and no state is
\* active.
C4_RemovalClearsAll ==
    Ran("jackdet_remove") => AccumulatorsCleared /\ info.state = NONE

\* C5: a jack-detect interrupt that reads the last committed presence value
\* makes no report and no state transition, and the insertions and removals
\* the handler acts on alternate.
C5_DuplicateSuppressed ==
    /\ Ran("jackdet_dup") => Len(ev) = 1 /\ info.state = StateBefore
    /\ Ran("jackdet_insert") =>
          ev[1].st # "insert" /\ info.last_jackdet = JdPresent
    /\ Ran("jackdet_remove") =>
          ev[1].st # "remove" /\ info.last_jackdet # JdPresent

\* C5 witness: a duplicate was suppressed while a jack was inserted.
C5_Witness ==
    /\ Ran("jackdet_dup")
    /\ info.jd_last = "insert"
    /\ info.state # NONE

\* C6: when arizona_jackdet has handled a removal that arrived while a
\* headphone-detect state was active, no state timeout and no accessory-ID
\* work is pending, the accumulators are cleared and "no accessory" was
\* reported exactly once.
C6_RemovalDuringHpdet ==
    (Ran("jackdet_remove") /\ StateBefore \in HpdetStates) =>
        /\ ~state_timeout_work.pending
        /\ ~hpdet_work
        /\ AccumulatorsCleared
        /\ Reports(BIT_NO_HEADSET) = 1

\* C7: the timeout work never runs while no state is active or while the
\* active state has no timeout handler, and no callback dereferences a
\* missing state.
C7_NoTimeoutWithoutState ==
    info.oops = "none"

\* C8: a pending state timeout was armed for the state that is active.
C8_TimeoutIsForActiveState ==
    state_timeout_work.pending => state_timeout_work.armed_for = info.state

\* the state the priority of C9 gives: the custom state, else the moisture
\* check, else MicDetectMicrophone
StateByPriority ==
    CASE cfg.custom_jd # NONE -> cfg.custom_jd
      [] cfg.custom_jd = NONE /\ cfg.hpdet_moisture_imp # 0 -> arizona_hpdet_moisture
      [] OTHER -> arizona_micd_microphone

\* C9, as stated: after a non-duplicate insertion the active state is the
\* first detection state by priority (custom, else moisture check, else
\* MicDetectMicrophone), and its timeout is pending if it declares one.
C9_Original ==
    Ran("jackdet_insert") =>
        /\ info.state = StateByPriority
        /\ HasTimeout(info.state) => state_timeout_work.pending

\* C9, amended: without accessory identification the handler calls
\* arizona_jds_set_state with the first detection state by priority; the
\* active state is then that state, or none if its start failed, and if it
\* declares a timeout the timeout is pending.  With accessory identification
\* the handler enters no state: it schedules hpdet_work.
C9_FirstStateByPriority ==
    Ran("jackdet_insert") =>
        IF cfg.hpdet_acc_id
        THEN /\ Len(ev) = 1
             /\ info.state = StateBefore
             /\ hpdet_work
        ELSE /\ ev[Len(ev)].op = "set_state"
             /\ ev[Len(ev)].st = StateByPriority
             /\ ev[Len(ev)].ret >= 0 => info.state = StateByPriority
             /\ ev[Len(ev)].ret < 0 => info.state = NONE
             /\ HasTimeout(info.state) =>
                    /\ state_timeout_work.pending
                    /\ state_timeout_work.armed_for = info.state

\* C9 witness: with a custom state and a moisture threshold both
\* configured, an insertion entered the custom state.
C9_Witness ==
    /\ Ran("jackdet_insert")
    /\ cfg.custom_jd # NONE
    /\ cfg.hpdet_moisture_imp # 0
    /\ info.state = cfg.custom_jd

\* C10: when detection for an insertion begins (in arizona_jackdet, or in
\* hpdet_work with accessory identification) the mic-present flag is false
\* and the jack-flip counter is 0.
C10_InsertionResets ==
    ((Ran("jackdet_insert") /\ ~cfg.hpdet_acc_id) \/ Ran("hpdet_work")) =>
        ~info.mic /\ info.jack_flips = 0

\* the reading the last handler dispatched to the active state is val
Dispatched(state, val) ==
    /\ Len(ev) >= 2
    /\ ev[2] = Ev("reading", state, val, state)

\* the readings with status set, a level in 1..7 and not level 8
LowReadings ==
    {v \in MicdReadResults :
        v >= 0 /\ HasBit(v, ARIZONA_MICD_STS)
               /\ ~HasBit(v, ARIZONA_MICD_LVL_8) /\ MICD_LVL_1_TO_7(v)}

MicReadings ==
    {v \in MicdReadResults :
        v >= 0 /\ HasBit(v, ARIZONA_MICD_STS) /\ HasBit(v, ARIZONA_MICD_LVL_8)}

\* the last handler dispatched a microphone reading to arizona_micd_microphone
MicDispatched == \E v \in MicReadings : Dispatched(arizona_micd_microphone, v)

\* the last handler dispatched the measured impedance v to the
\* headphone-detect state of hpdet_channel
HpdetDispatched(v) == v >= 0 /\ Dispatched(HpdetChannelState, v)

\* C12, as stated: a microphone reading sets mic-present and makes the
\* headphone-detect state of hpdet_channel the active state; the headphone
\* reading that follows reports headset-with-mic if mic-present is true and
\* otherwise leaves the reported classification as it was.
C12_Original ==
    [][/\ MicDispatched' =>
             info'.mic /\ info'.state = HpdetChannelState
       /\ \A v \in HpdetReadResults : HpdetDispatched(v)' =>
             /\ info.mic => info'.edev = BIT_HEADSET
             /\ ~info.mic => info'.edev = info.edev]_vars

\* C12, amended: a microphone reading sets mic-present and calls
\* arizona_jds_set_state with the headphone-detect state of hpdet_channel,
\* which is then active, unless its start failed: then no state is active
\* and headset-with-mic is reported at once.  The headphone reading that
\* follows stores the impedance; with mic-present it reports
\* headset-with-mic once and enters arizona_micd_button, without it reports
\* headset-without-mic once and leaves no state active.
C12_HpdetReportsByMic ==
    [][/\ MicDispatched' =>
             /\ info'.mic
             /\ \E k \in 3..Len(ev') :
                   ev'[k].op = "set_state" /\ ev'[k].st = HpdetChannelState
             /\ \/ info'.state = HpdetChannelState /\ info'.edev = info.edev
                \/ /\ info'.state = NONE
                   /\ info'.edev = BIT_HEADSET
                   /\ Reports(BIT_HEADSET)' = 1
       /\ \A v \in HpdetReadResults : HpdetDispatched(v)' =>
             /\ info'.hp_impedance = v
             /\ info'.mic = info.mic
             /\ IF info.mic
                THEN /\ Reports(BIT_HEADSET)' = 1
                     /\ Reports(BIT_HEADSET_NO_MIC)' = 0
                     /\ info'.edev = BIT_HEADSET
                     /\ info'.state = arizona_micd_button
                ELSE /\ Reports(BIT_HEADSET_NO_MIC)' = 1
                     /\ Reports(BIT_HEADSET)' = 0
                     /\ info'.edev = BIT_HEADSET_NO_MIC
                     /\ info'.state = NONE]_vars

\* C12 witness: after a microphone reading, the headphone reading found
\* mic-present true, reported headset-with-mic and entered arizona_micd_button.
C12_Witness ==
    /\ \E v \in HpdetReadResults : HpdetDispatched(v)
    /\ ~cfg.micd_open_circuit_declare
    /\ info.mic
    /\ Reports(BIT_HEADSET) = 1
    /\ info.state = arizona_micd_button

\* the levels 0..7 set in a reading
ButtonLevels(val) == {n \in 0..7 : HasBit(val, MicdLvl(n))}

\* C13: a button reading whose lowest set level is n, with n below the
\* number of configured ranges, leaves exactly key n down (level 0 the
\* first key); a reading with none of the levels 0..7 set leaves every
\* key released.
C13_ButtonKey ==
    \A val \in ButtonReadings :
        (val >= 0 /\ Dispatched(arizona_micd_button, val)) =>
            /\ ButtonLevels(val) = {} => info.keys = {}
            /\ \A n \in ButtonLevels(val) :
                  (n < cfg.num_micd_ranges /\ \A m \in ButtonLevels(val) : n <= m)
                      => info.keys = {n}

\* C13 witness: with three ranges configured, a reading with levels 2 and 5
\* set pressed the third key.
C13_Witness ==
    /\ Dispatched(arizona_micd_button,
                  ARIZONA_MICD_VALID + ARIZONA_MICD_STS + MicdLvl(2) + MicdLvl(5))
    /\ cfg.num_micd_ranges = 3
    /\ info.keys = {2}

\* the step was a call of arizona_hpdet_read
ReadStep == info'.read.io # "none" /\ info'.ev[1].op = "hpdet_read"

\* the number of ranges of the revision: arizona_hpdet_b_ranges has three,
\* arizona_hpdet_c_ranges four
HpdetRangeCount == IF info.hpdet_ip = 1 THEN 3 ELSE 4

\* the last call found the measurement complete and read every register
ReadComplete ==
    /\ info.read.io = "ok"
    /\ HasBit(info.read.status, ARIZONA_HP_DONE_B)

\* C14: within one measurement of a revision with ranges (hpdet_ip 1 with
\* three, hpdet_ip 2 with four) a call of arizona_hpdet_read never lowers
\* the range, raises it by exactly one when it asks for a retry because the
\* value is out of range and leaves it alone otherwise; there are at most
\* (number of ranges - 1) such retries, and once they are used up a
\* complete measurement is final (the result is not a retry).
C14_RangeStepping ==
    /\ [](info.hpdet_ip \in {1, 2} =>
              /\ info.range_retries <= HpdetRangeCount - 1
              /\ info.hp_range = info.range_retries)
    /\ [][(ReadStep /\ info.hpdet_ip \in {1, 2}) =>
              /\ info'.hp_range >= info.hp_range
              /\ IF info'.range_retries # info.range_retries
                 THEN info'.hp_range = info.hp_range + 1
                 ELSE info'.hp_range = info.hp_range
              /\ (ReadComplete' /\ info.range_retries = HpdetRangeCount - 1)
                     => info'.ret >= 0]_vars

\* C14 witness: a four-range measurement that moved three times and then
\* gave a final value in the last range
C14_Witness ==
    /\ info.hpdet_ip = 2
    /\ info.range_retries = 3
    /\ info.hp_range = 3
    /\ ReadComplete
    /\ info.ret >= 0

\* the last call of arizona_hpdet_read returned a value in ohms
ReadFinal == info.read.io # "none" /\ info.ret >= 0

\* the range the last call found, as an index of the range tables
ReadRange == info.read.range + 1

\* C15: in the last range a complete measurement is never answered by a
\* retry, and the value returned is within the range: with hpdet_ip 2 and
\* no external resistor a final value found in range r lies within
\* [min_r, max_r]; with hpdet_ip 1 a value outside the last range is
\* returned as ARIZONA_HPDET_MAX.
C15_LastRangeClamped ==
    /\ (ReadComplete /\ info.hpdet_ip \in {1, 2}
           /\ info.read.range = HpdetRangeCount - 1) => info.ret >= 0
    /\ (ReadFinal /\ info.hpdet_ip = 2 /\ cfg.hpdet_ext_res = 0) =>
           /\ info.ret >= arizona_hpdet_c_ranges[ReadRange].min
           /\ info.ret <= arizona_hpdet_c_ranges[ReadRange].max
    /\ (ReadFinal /\ info.hpdet_ip = 1 /\ info.read.range = 2
           /\ \/ info.read.dacval < arizona_hpdet_b_ranges[3].threshold
              \/ info.read.dacval >= ARIZONA_HPDET_B_RANGE_MAX) =>
           info.ret = ARIZONA_HPDET_MAX

\* the ohms the last call measured, before any compensation
OhmsMeasured ==
    CASE info.hpdet_ip = 0 -> info.read.status % 128
      [] info.hpdet_ip = 1 ->
           IF \/ info.read.dacval < arizona_hpdet_b_ranges[ReadRange].threshold
              \/ info.read.dacval >= ARIZONA_HPDET_B_RANGE_MAX
           THEN ARIZONA_HPDET_MAX
           ELSE arizona_hpdet_b_ranges[ReadRange].factor_b
                \div (info.read.dacval * 100
                      - arizona_hpdet_b_ranges[ReadRange].factor_a)
      [] OTHER ->
           LET ohms == (info.read.status % 32768) \div 2
           IN IF ohms < arizona_hpdet_c_ranges[ReadRange].min
              THEN arizona_hpdet_c_ranges[ReadRange].min
              ELSE ohms

\* C16: with an external resistor configured, every value arizona_hpdet_read
\* returns as final, on every revision and every return path, is the
\* measurement less the resistor if the measurement is larger than the
\* resistor and the measurement itself otherwise; it is never negative.
C16_ExtResSubtracted ==
    (ReadFinal /\ cfg.hpdet_ext_res # 0) =>
        /\ info.ret = IF OhmsMeasured > cfg.hpdet_ext_res
                      THEN OhmsMeasured - cfg.hpdet_ext_res
                      ELSE OhmsMeasured
        /\ info.ret >= 0

\* the last presence event handled was an insertion and nothing has been
\* reported since (the removal before it reported BIT_NO_HEADSET)
Unclassified == info.jd_last = "insert" /\ info.edev = BIT_NO_HEADSET

\* C17: under fair scheduling an insertion is followed by a report
\* (BIT_HEADSET_NO_MIC at the least), unless the plug is removed first;
\* the controller does not stay for ever with nothing reported.
C17_EventuallyClassified ==
    [](Unclassified => <>(~Unclassified \/ ~Alive))

\* C18: once arizona_extcon_remove has returned no deferred work of the
\* controller is pending or running: not the accessory-identification work,
\* not the debounced mic-detect work, not the state-timeout work.
C18_NoWorkAfterRemove ==
    info.removed =>
        /\ ~hpdet_work
        /\ micd_detect_work = "idle"
        /\ ~state_timeout_work.pending

\* the probe has run on a table that is not sorted by max, or that holds a
\* max above the largest of the ARIZONA_NUM_MICD_BUTTON_LEVELS levels
BadTable ==
    /\ info.probed
    /\ \/ \E m, n \in 1..info.num_micd_ranges :
             n = m + 1 /\ info.micd_ranges[m] > info.micd_ranges[n]
       \/ \E n \in 1..info.num_micd_ranges :
             info.micd_ranges[n] >
                 arizona_micd_levels[ARIZONA_NUM_MICD_BUTTON_LEVELS]

\* C19: the probe fails with an error and requests no interrupt whenever
\* the range table is not non-decreasing in max or holds a max above the
\* largest supported button level.
C19_BadTableFails ==
    BadTable => info.ret < 0 /\ info.irqs = {}

\* C19 witness: the probe has refused a sorted table whose last max is
\* above every level, after setting up the ranges before it
C19_Witness ==
    /\ BadTable
    /\ info.micd_ranges = <<28, 1257, 1258>>
    /\ info.micd_enable = {0, 1}
    /\ info.ret = -EINVAL
    /\ info.irqs = {}

\* C20: the probe fails when the platform data holds more than
\* ARIZONA_MAX_MICD_RANGE ranges: no level and no enable bit with an index
\* of 8 or above is programmed and the table does not reach the handlers.
C20_TooManyRangesFail ==
    (info.probed /\ Len(cfg.micd_ranges) > ARIZONA_MAX_MICD_RANGE) =>
        /\ info.ret < 0
        /\ info.irqs = {}
        /\ \A n \in MicdSlots :
              n >= ARIZONA_MAX_MICD_RANGE =>
                  info.micd_level[n] = -1 /\ n \notin info.micd_enable

\* C21: every access to a mutable field of the controller is made by the
\* holder of the controller lock: a handler or a work between its lock and
\* its unlock, and a reader of the sysfs attribute as well.
C21_NoAccessOutsideLock ==
    Ran("show") => ev[1].st = "arizona_extcon_show"

\* C22: no handler waits with the controller lock held: a handler that
\* sleeps for a delay has released the lock, and no work that is due waits
\* for a lock that is held across a delay.
C22_NoWaitUnderLock ==
    /\ irq_pc = "jackdet_msleep" => info.lock = "none"
    /\ info.lock # "none" =>
          ~state_timeout_work.pending /\ micd_detect_work # "running"

\* the fields of the controller a handler that does nothing leaves alone:
\* the active state, the accumulators, the reported classification
Untouched(i, j) ==
    /\ j.state = i.state
    /\ j.started = i.started
    /\ j.last_jackdet = i.last_jackdet
    /\ j.mic = i.mic
    /\ j.detecting = i.detecting
    /\ j.jack_flips = i.jack_flips
    /\ j.micd_mode = i.micd_mode
    /\ j.hpdet_retried = i.hpdet_retried
    /\ j.num_hpdet_res = i.num_hpdet_res
    /\ j.hpdet_res = i.hpdet_res
    /\ j.hp_impedance = i.hp_impedance
    /\ j.edev = i.edev
    /\ j.keys = i.keys

\* C23, as stated: when arizona_jackdet suppresses a duplicate, the
\* accessory-ID work is pending afterwards if and only if the handler had
\* cancelled it, the state timeout is pending again if the handler had
\* cancelled it and is left as it was if not, and the active state, the
\* accumulators and the reported classification are unchanged.
C23_Original ==
    [][Ran("jackdet_dup")' =>
          /\ hpdet_work' = cancelled_hp
          /\ cancelled_state => state_timeout_work'.pending
          /\ ~cancelled_state => state_timeout_work' = state_timeout_work
          /\ Untouched(info, info')]_vars

\* C23, amended: the state timeout is armed by the duplicate branch if and
\* only if the handler had cancelled it and the state that is active when
\* the handler holds the lock declares a timeout; it is then armed for that
\* state; a timeout another handler armed meanwhile stays pending.  The
\* rest is as stated.
C23_DuplicateRearms ==
    [][Ran("jackdet_dup")' =>
          /\ hpdet_work' = cancelled_hp
          /\ state_timeout_work'.pending =
                 \/ state_timeout_work.pending
                 \/ cancelled_state /\ info.state # NONE /\ HasTimeout(info.state)
          /\ state_timeout_work.pending => state_timeout_work' = state_timeout_work
          /\ (state_timeout_work'.pending /\ ~state_timeout_work.pending) =>
                 state_timeout_work'.armed_for = info.state
          /\ Untouched(info, info')
          /\ Len(ev') = 1]_vars

\* C23 witness: a duplicate was suppressed by a handler that had cancelled
\* the timeout of arizona_micd_microphone, and the timeout is pending again.
C23_Witness ==
    /\ Ran("jackdet_dup")
    /\ ev[1].ret = Cancelled(FALSE, TRUE)
    /\ info.state = arizona_micd_microphone
    /\ state_timeout_work.pending
    /\ state_timeout_work.armed_for = arizona_micd_microphone

\* C24: when the read of the presence register fails, arizona_jackdet
\* leaves the controller as it was before the interrupt: the active state,
\* the last presence value and the accumulators are unchanged, and a state
\* timeout or an accessory-ID work that was pending before the interrupt
\* (the handler cancelled it) is pending again.
C24_FailedReadRestores ==
    [][Ran("jackdet_fail")' =>
          /\ Untouched(info, info')
          /\ cancelled_hp => hpdet_work'
          /\ cancelled_state => state_timeout_work'.pending]_vars

MicdStates == {arizona_micd_button, arizona_micd_microphone}

\* the last handler found an interrupt it did not expect and did nothing
\* but log it: no reading was dispatched, nothing was reported
Dismissed ==
    /\ Len(ev) = 2
    /\ ev[2].op = "spurious"

\* C25: an HPDET interrupt handled while no state or a mic-detect state is
\* active, and a mic-detect event handled while no state or a
\* headphone-detect state is active, dispatches no reading, reports
\* nothing and leaves the active state and the accumulators unchanged.
C25_SpuriousIsNoOp ==
    [][/\ (Ran("hpdet_handler")' /\ info.state \in {NONE} \cup MicdStates) =>
             Dismissed' /\ Untouched(info, info')
       /\ (Ran("micd_handler")' /\ info.state \in {NONE} \cup HpdetStates) =>
             Dismissed' /\ Untouched(info, info')]_vars

\* C25 witness: an HPDET interrupt was dismissed while
\* arizona_micd_microphone was active, and the state is still active.
C25_Witness ==
    /\ Ran("hpdet_handler")
    /\ StateBefore = arizona_micd_microphone
    /\ Dismissed
    /\ info.state = arizona_micd_microphone

\* the number of calls of the restart callback made by the last handler
Restarts == Cardinality({k \in 1..Len(ev) : ev[k].op = "restart"})

\* the last handler called arizona_jds_reading, the reading callback
\* returned -EAGAIN and the state it was dispatched to defines restart
RetryOfRestartable ==
    /\ Len(ev) >= 2
    /\ ev[2].op = "reading"
    /\ info.reading_ret = -EAGAIN
    /\ HasRestart(ev[2].st)

\* C26: when the reading callback returns -EAGAIN to arizona_jds_reading
\* and the state defines restart, restart is called exactly once, as the
\* last thing, and the state the reading was dispatched to is still
\* active; in every other case restart is not called.
C26_RestartOnRetry ==
    /\ RetryOfRestartable =>
          /\ Restarts = 1
          /\ ev[Len(ev)] = Ev("restart", ev[2].st, 0, ev[2].st)
          /\ info.state = ev[2].st
    /\ ~RetryOfRestartable => Restarts = 0

\* C26 witness: the accessory-ID state measured a high impedance, asked
\* for the one retry of an insertion and was restarted.
C26_Witness ==
    /\ Dispatched(arizona_hpdet_acc_id, ARIZONA_HPDET_MAX)
    /\ RetryOfRestartable
    /\ info.hpdet_retried
    /\ Restarts = 1
    /\ info.state = arizona_hpdet_acc_id

\* C27: when the timeout of arizona_micd_microphone fires, the controller
\* leaves that state for the headphone-detect state of hpdet_channel, or
\* for no state with headset-without-mic reported once if that state fails
\* to start; headset-with-mic is not reported then nor later for the same
\* insertion, and a report made later for it is headset-without-mic; the
\* timeout is pending afterwards if and only if the resulting state
\* declares one.
C27_TimeoutLeadsToNoMic ==
    /\ [][(Ran("timeout_work")' /\ info.state = arizona_micd_microphone) =>
             /\ info'.timed_out
             /\ info'.state \in {HpdetChannelState, NONE}
             /\ info'.state = HpdetChannelState =>
                    Reports(BIT_HEADSET_NO_MIC)' = 0 /\ info'.edev = info.edev
             /\ info'.state = NONE =>
                    /\ Reports(BIT_HEADSET_NO_MIC)' = 1
                    /\ info'.edev = BIT_HEADSET_NO_MIC
             /\ state_timeout_work'.pending =
                    (info'.state # NONE /\ HasTimeout(info'.state))]_vars
    /\ [](info.timed_out =>
              /\ ~info.mic
              /\ Reports(BIT_HEADSET) = 0
              /\ info.edev # BIT_HEADSET)
    /\ [][(info.timed_out /\ info'.timed_out /\ info'.edev # info.edev) =>
             info'.edev = BIT_HEADSET_NO_MIC]_vars

\* C27 witness: after the timeout of arizona_micd_microphone, the
\* headphone-detect state measured the headphone and headset-without-mic
\* was reported.
C27_Witness ==
    /\ info.timed_out
    /\ Ran("hpdet_handler")
    /\ StateBefore = HpdetChannelState
    /\ Reports(BIT_HEADSET_NO_MIC) = 1
    /\ info.edev = BIT_HEADSET_NO_MIC
    /\ info.state = NONE

\* the step is arizona_micdet calling arizona_micd_handler itself
MicdCalled == irq_pc = "idle" /\ irq_pc' = "micd_cancel"

\* the step is arizona_micdet scheduling micd_detect_work
MicdScheduled == micd_detect_work # "pending" /\ micd_detect_work' = "pending"

\* C28, as stated: with a debounce delay configured, a mic-detect
\* interrupt that arrives while arizona_micd_button is active is not
\* evaluated at once: the handler is not called from the interrupt.
C28_Original ==
    [][MicdCalled =>
          ~(info.state = arizona_micd_button /\ cfg.micd_detect_debounce # 0)]_vars

\* C28, amended: the debounce delay applies while the detecting flag is
\* set, which it never is in arizona_micd_button.  With the flag set and a
\* delay configured the interrupt dispatches nothing and leaves
\* micd_detect_work pending, once, however many interrupts arrive before
\* it runs; otherwise the interrupt cancels a pending micd_detect_work and
\* calls the handler itself: one evaluation for each interrupt.
C28_DebounceWhileDetecting ==
    /\ [](info.state = arizona_micd_button => ~info.detecting)
    /\ [][/\ MicdCalled =>
               /\ ~info.detecting \/ cfg.micd_detect_debounce = 0
               /\ micd_detect_work' = "idle"
          /\ MicdScheduled =>
               /\ info.detecting /\ cfg.micd_detect_debounce # 0
               /\ irq_pc = "idle" /\ irq_pc' = "idle"
               /\ ev' = <<>>
          /\ (Ran("micd_handler")' /\ irq_pc' = irq_pc) =>
               micd_detect_work = "running" /\ micd_detect_work' = "idle"]_vars

\* C28 witness: with a debounce delay configured, a mic-detect interrupt
\* arrived while arizona_micd_button was active and the handler is being
\* called from the interrupt.
C28_Witness ==
    /\ irq_pc = "micd_cancel"
    /\ info.state = arizona_micd_button
    /\ cfg.micd_detect_debounce # 0
    /\ micd_detect_work = "idle"

\* the step is a call of arizona_micd_read that took the software comparison
SoftwareCompared ==
    /\ irq_pc = "idle"
    /\ info.detecting /\ cfg.micd_software_compare
    /\ Ran("micd_read")'

\* C29: in software-compare mode arizona_micd_read leaves the mic-detect
\* enable bit as it was before the call on every return path, a failed
\* read of the ADC register included.
C29_EnableRestored ==
    [][SoftwareCompared => info'.micd_ena = info.micd_ena]_vars

\* C30: in software-compare mode the word arizona_micd_read returns is
\* decided by the impedance looked up for the ADC code, which does not
\* decrease with the code: at most 3 ohms gives status and level 0, more
\* and at most 1257 ohms status and level 1, more and at most 30000 ohms
\* status and level 8, a code beyond the table level 8 without status.
C30_WordOfAdcCode ==
    /\ \A k \in 1..(Len(arizona_micd_levels) - 1) :
          arizona_micd_levels[k] <= arizona_micd_levels[k + 1]
    /\ (/\ Ran("micd_read") /\ ev[1].st = "ok"
        /\ info.detecting /\ cfg.micd_software_compare)
       => LET code == ev[1].ret
              ohms == arizona_micd_levels[code + 1]
          IN  IF code >= Len(arizona_micd_levels)
              THEN info.ret = ARIZONA_MICD_LVL_8
              ELSE /\ ohms <= 3 =>
                        info.ret = ARIZONA_MICD_STS + ARIZONA_MICD_LVL_0
                   /\ (ohms > 3 /\ ohms <= 1257) =>
                        info.ret = ARIZONA_MICD_STS + 2 * ARIZONA_MICD_LVL_0
                   /\ (ohms > 1257 /\ ohms <= 30000) =>
                        info.ret = ARIZONA_MICD_STS + ARIZONA_MICD_LVL_8
                   /\ ohms <= 30000

\* C30 witness: the software comparison returned the word of the last
\* code of the table, 30000 ohms, with the enable bit as it was set.
C30_Witness ==
    /\ Ran("micd_read") /\ ev[1].st = "ok"
    /\ info.detecting /\ cfg.micd_software_compare
    /\ ev[1].ret = Len(arizona_micd_levels) - 1
    /\ info.ret = ARIZONA_MICD_STS + ARIZONA_MICD_LVL_8
    /\ info.micd_ena

\* arizona_micd_read is in its loop and the next step reads the register
PollReads ==
    /\ irq_pc = "micd_read_poll"
    /\ info.rd_i < 10
    /\ \A n \in 0..8 : ~HasBit(info.rd_val, ARIZONA_MICD_LVL_0 * 2 ^ n)

\* arizona_micd_read is in its loop and the next step leaves it
PollLeaves == irq_pc = "micd_read_poll" /\ ~PollReads

\* C31: in hardware-compare mode arizona_micd_read reads the register at
\* most 10 times and always returns.  A read that fails, or that shows the
\* valid bit clear, ends the call with an error at once; a valid read that
\* shows a level bit ends the call with the word read; 10 valid reads
\* without a level bit end it with an error.
C31_PollTerminates ==
    /\ [](info.rd_i \in 0..10)
    /\ [][PollReads =>
            \/ /\ irq_pc' = "micd_read_poll"
               /\ info'.rd_i = info.rd_i + 1
               /\ HasBit(info'.rd_val, ARIZONA_MICD_VALID)
            \/ /\ irq_pc' = "idle"
               /\ info'.rd_i = info.rd_i
               /\ \/ info'.ret = -EIO /\ info'.rd_val = info.rd_val
                  \/ /\ info'.ret = -EINVAL
                     /\ ~HasBit(info'.rd_val, ARIZONA_MICD_VALID)]_vars
    /\ [][PollLeaves =>
            /\ irq_pc' = "idle"
            /\ info'.rd_i = info.rd_i /\ info'.rd_val = info.rd_val
            /\ info'.ret = IF \E n \in 0..8 :
                                HasBit(info.rd_val, ARIZONA_MICD_LVL_0 * 2 ^ n)
                           THEN info.rd_val
                           ELSE -EINVAL
            /\ info.rd_i < 10 =>
                 \E n \in 0..8 :
                    HasBit(info.rd_val, ARIZONA_MICD_LVL_0 * 2 ^ n)]_vars
    /\ (irq_pc = "micd_read_poll") ~> (irq_pc = "idle")

\* C31 witness: ten valid reads showed no level bit and the call returned
\* the error.
C31_Witness ==
    /\ Ran("micd_read")
    /\ irq_pc = "idle"
    /\ info.rd_i = 10
    /\ info.rd_val = ARIZONA_MICD_VALID
    /\ info.ret = -EINVAL

\* the step is a handler running with the lock held up to mutex_unlock
Unlocks == info'.ev # <<>> /\ info'.lock = "none"

\* C32: whenever a handler has released the lock with
\* arizona_micd_microphone active, the state timeout is pending, whichever
\* way the state was entered.
C32_MicrophoneHasTimeout ==
    [][(Unlocks /\ info'.state = arizona_micd_microphone)
          => state_timeout_work'.pending]_vars

\* C33: whenever headset-with-mic is the last reported classification and
\* no handler holds the lock, arizona_micd_button is the active state.
C33_HeadsetHasButtons ==
    (info.lock = "none" /\ info.edev = BIT_HEADSET)
        => info.state = arizona_micd_button

C40_DetectingIffMicrophone ==
    info.lock = "none"
        => (info.detecting <=> info.state = arizona_micd_microphone)

\* C40 witness: the mic-detect handler has left arizona_micd_microphone
\* for the headphone measurement and the detecting flag is clear again.
C40_Witness ==
    /\ Ran("micd_handler")
    /\ \E k \in 1..Len(ev) :
          ev[k].op = "stop" /\ ev[k].st = arizona_micd_microphone
    /\ info.lock = "none"
    /\ info.state = arizona_hpdet_left
    /\ ~info.detecting

\* C35: after any sequence of changes of state, failed starts and failed
\* regulator enables included, the runtime-PM reference taken for
\* detection is held exactly when a state is active, and MICVDD is enabled
\* once exactly when a mic-detect state is active, never less than zero
\* times.
C35_ResourcesBalanced ==
    /\ info.pm_usage = IF info.state # NONE THEN 1 ELSE 0
    /\ info.micvdd =
          IF info.state \in {arizona_micd_button, arizona_micd_microphone}
          THEN 1 ELSE 0
    /\ info.micvdd >= 0

\* the step is an HPDET reading that made arizona_hpdet_acc_id start over
\* for a high impedance
RetryTaken ==
    /\ Ran("hpdet_handler")'
    /\ info'.state = arizona_hpdet_acc_id
    /\ info'.reading_ret = -EAGAIN
    /\ info'.num_hpdet_res = 0

\* C36: in accessory-ID mode at most 2 readings are ever stored, so
\* hpdet_res[3] is never indexed out of bounds, and the retry for a high
\* impedance is taken at most once for an insertion: it is taken only with
\* hpdet_retried clear, it sets the flag, and only the handling of a
\* removal clears the flag again.
C36_AccIdReadingsBounded ==
    /\ [](/\ info.num_hpdet_res \in 0..2
          /\ info.oops # "hpdet_res: index out of bounds")
    /\ [][/\ RetryTaken => ~info.hpdet_retried /\ info'.hpdet_retried
          /\ (info.hpdet_retried /\ ~info'.hpdet_retried) =>
                Ran("jackdet_remove")']_vars

\* C36 witness: with the ID GPIO, an insertion was measured again after a
\* high impedance, and both readings of the second pass are stored.
C36_Witness ==
    /\ cfg.hpdet_acc_id /\ cfg.hpdet_id_gpio
    /\ Ran("hpdet_handler")
    /\ info.hpdet_retried
    /\ info.num_hpdet_res = 2
    /\ info.state # arizona_hpdet_acc_id

\* C37: at most one configured button key is down at any time, a press
\* releasing every other key; keys go down only by a button reading under
\* arizona_micd_button; after the handling of a jack removal no key is
\* down.
C37_OneKeyAtATime ==
    /\ [](Cardinality(info.keys) <= 1)
    /\ [](Ran("jackdet_remove") => info.keys = {})
    /\ [][\A n \in info'.keys \ info.keys :
             /\ info'.keys = {n}
             /\ Ran("micd_handler")'
             /\ info.state = arizona_micd_button]_vars

\* C37 witness: a button reading with level 1 set has left the second key
\* down, and no other.
C37_Witness ==
    /\ Ran("micd_handler") /\ Len(ev) >= 2
    /\ ev[2].op = "reading" /\ ev[2].st = arizona_micd_button
    /\ ev[2].ret = ARIZONA_MICD_VALID + ARIZONA_MICD_STS + 2 * ARIZONA_MICD_LVL_0
    /\ info.keys = {1}

\* C38: after a successful probe, whatever the sequence of init, shutdown,
\* set_suspend and remove, clocks_enabled is true exactly when ref_clk and
\* cfg_ahb_clk are enabled, and neither clock is enabled twice or disabled
\* while it is disabled.
C38_ClocksFlagMatches ==
    info.bound \in {"bound", "removed"} =>
        /\ info.ref_clk \in {0, 1} /\ info.cfg_ahb_clk \in {0, 1}
        /\ info.clocks_enabled <=> (info.ref_clk = 1 /\ info.cfg_ahb_clk = 1)

\* the supplies of the PHY as the driver has enabled them
Supplies(q) == <<q.vdd, q.vdda18, q.vdda33>>

\* the step called qusb_phy_enable_power for `on`, the regulators
\* answering io
PowerCall(on, io) ==
    \E k \in 1..Len(info'.ev) :
        info'.ev[k] = Ev("enable_power", io, IF on THEN 1 ELSE 0, "")

\* C39: qusb_phy_enable_power changes nothing for a request equal to
\* power_enabled; when the enable of one of the three regulators fails it
\* disables those it had enabled, returns the error and leaves
\* power_enabled false; power_enabled is true exactly when the three
\* regulators are enabled.
C39_PowerAllOrNothing ==
    /\ [](info.power_enabled <=> Supplies(info) = <<1, 1, 1>>)
    /\ [](~info.power_enabled <=> Supplies(info) = <<0, 0, 0>>)
    /\ [][\A on \in BOOLEAN, io \in QusbIo :
            PowerCall(on, io) =>
              IF info.power_enabled = on
              THEN /\ Supplies(info') = Supplies(info)
                   /\ info'.power_enabled = on
                   /\ info'.power_ret = 0
              ELSE IF on /\ io # "ok"
              THEN /\ Supplies(info') = <<0, 0, 0>>
                   /\ ~info'.power_enabled
                   /\ info'.power_ret < 0
              ELSE /\ info'.power_enabled = on
                   /\ info'.power_ret = 0]_vars

\* C39 witness: the PHY was resumed with its power off and the enable of
\* vdda33 failed: no regulator is left enabled.
C39_Witness ==
    /\ Ran("set_suspend") /\ ev[1].st = "0"
    /\ Len(ev) = 2 /\ ev[2] = Ev("enable_power", "vdda33_fails", 1, "")
    /\ info.power_ret < 0
    /\ ~info.power_enabled
    /\ Supplies(info) = <<0, 0, 0>>

====
